---- MODULE Spec2Model ----
(***************************************************************************)
(* Model of the stock-tracker portfolio valuation and monthly tables.      *)
(*                                                                         *)
(* JavaScript numbers are modelled as exact rationals [n, d] (d > 0,       *)
(* lowest terms), so the arithmetic of the valuation is the arithmetic of  *)
(* the source without IEEE-754 rounding.  A date string "YYYY-MM-DD" is    *)
(* the triple <<y, m, d>>; its lexicographic order is the order of the     *)
(* strings.  Cell values of a combined row are tagged records: a number,   *)
(* null, or undefined (the key is missing from the row).                   *)
(***************************************************************************)
EXTENDS Integers, Sequences, FiniteSets, TLC

VARIABLES
    PORTFOLIOS,     \* module constant PORTFOLIOS: sequence of [name, entries]
    data,           \* prop data: CombinedPriceData[]
    symbols,        \* prop symbols of StockTable
    year,           \* prop year
    today,          \* new Date() in local time, <<y, m, d>>
    tzWest,         \* TRUE iff the local UTC offset is negative
    pc,             \* position of the render
    STOCKS,         \* result of getAllStocks
    portfolioData,  \* result of calculatePortfolioData
    contrib,        \* per row, person and key: what the valuation added
    portfolioTable, \* what PortfolioTable renders
    stockTable,     \* what StockTable renders
    portfolioGrid,  \* what PortfolioGrid renders
    call,           \* the fetchStockData call in flight
    batch,          \* the loop over the symbols that issues the calls
    stocksJson,     \* the stocks object written to stocks.json
    loading,        \* App state loading
    progress,       \* App state progress
    fetchRuns,      \* the invocations of App.handleFetchData
    storage,        \* localStorage: the cached series of each year
    stockDataMap    \* the Map of symbol to series that is being combined

vars == <<PORTFOLIOS, data, symbols, year, today, tzWest, pc, STOCKS,
          portfolioData, contrib, portfolioTable, stockTable, portfolioGrid,
          call, batch, stocksJson, loading, progress, fetchRuns, storage, stockDataMap>>

\* the state of the fetching and of the application shell
fetchVars == <<call, batch, stocksJson, loading, progress, fetchRuns, storage, stockDataMap>>

\* the state of the valuation and of the views
viewVars == <<PORTFOLIOS, tzWest, pc, portfolioData, contrib, portfolioTable,
              stockTable, portfolioGrid>>

-----------------------------------------------------------------------------
(* Bounds of the model *)

MaxRows == 3

MaxRowsAnyOrder == 2

MaxPeople == 4

MaxRankingRows == 2

MaxRetries == 3

MaxSymbols == 2

\* the longest series of one symbol in a map that is combined
MaxSeriesLen == 2

\* the number of clicks on the reload button
MaxRuns == 2

-----------------------------------------------------------------------------
(* JavaScript values *)

Null == [t |-> "null"]

Undefined == [t |-> "undefined"]

Abs(x) == IF x < 0 THEN -x ELSE x

RECURSIVE GCD(_, _)
GCD(a, b) == IF b = 0 THEN a ELSE GCD(b, a % b)

\* the number n/d in lowest terms with a positive denominator (d # 0)
Rat(n, d) ==
    LET g == GCD(Abs(n), Abs(d))
        s == IF d < 0 THEN -1 ELSE 1
    IN  [t |-> "number", n |-> (s * n) \div g, d |-> (s * d) \div g]

Num(i) == [t |-> "number", n |-> i, d |-> 1]

Add(x, y) == Rat(x.n * y.d + y.n * x.d, x.d * y.d)

Sub(x, y) == Rat(x.n * y.d - y.n * x.d, x.d * y.d)

Mul(x, y) == Rat(x.n * y.n, x.d * y.d)

Div(x, y) == Rat(x.n * y.d, x.d * y.n)

IsNumber(v) == v.t = "number"

\* typeof price === "number" && price > 0
IsValidPrice(v) == IsNumber(v) /\ v.n > 0

\* obj[key] of a JavaScript object modelled as a function
Get(obj, key) == IF key \in DOMAIN obj THEN obj[key] ELSE Undefined

-----------------------------------------------------------------------------
(* Date strings and the Date object *)

IsLeap(y) == (y % 4 = 0 /\ y % 100 # 0) \/ y % 400 = 0

DaysInMonth(y, m) ==
    IF m = 2 THEN (IF IsLeap(y) THEN 29 ELSE 28)
    ELSE IF m \in {4, 6, 9, 11} THEN 30 ELSE 31

PrevDay(date) ==
    IF date[3] > 1 THEN <<date[1], date[2], date[3] - 1>>
    ELSE IF date[2] > 1
         THEN <<date[1], date[2] - 1, DaysInMonth(date[1], date[2] - 1)>>
         ELSE <<date[1] - 1, 12, 31>>

\* new Date("YYYY-MM-DD") is midnight UTC; getFullYear/getMonth/getDate read
\* it in local time, which is the previous calendar day west of Greenwich
LocalDate(dateStr, west) == IF west THEN PrevDay(dateStr) ELSE dateStr

\* `${date.getFullYear()}-${String(date.getMonth() + 1).padStart(2, "0")}`
MonthKeyOf(dateStr, west) ==
    LET l == LocalDate(dateStr, west) IN <<l[1], l[2]>>

\* order of two month keys (or date strings) as strings
TupleLess(a, b) ==
    \E i \in 1..Len(a) :
        /\ a[i] < b[i]
        /\ \A j \in 1..(i - 1) : a[j] = b[j]

-----------------------------------------------------------------------------
(* Portfolio definitions *)

Entry(k, amount) == [key |-> k, amount |-> amount]

Person(name, entries) == [name |-> name, entries |-> entries]

\* point[symbol]
Cell(point, symbol) == Get(point.cols, symbol)

-----------------------------------------------------------------------------
(* PortfolioTable.calculatePortfolioData *)

\* all unique symbols of all portfolios, excluding cash_amount
allSymbols(PF) ==
    { s \in UNION { { PF[i].entries[j].key : j \in 1..Len(PF[i].entries) } :
                     i \in 1..Len(PF) } : s # "cash_amount" }

\* mutant: the initial price is read from the first data point only
firstPointPrice(d, symbol, i) ==
    IF Len(d) >= 1 /\ IsValidPrice(Cell(d[1], symbol)) THEN Cell(d[1], symbol)
    ELSE Undefined

\* for (const point of data) { if valid { initialPrices[symbol] = price; break } }
RECURSIVE firstValidPrice(_, _, _)
firstValidPrice(d, symbol, i) ==
    IF i > Len(d) THEN Undefined
    ELSE IF IsValidPrice(Cell(d[i], symbol)) THEN Cell(d[i], symbol)
    ELSE firstValidPrice(d, symbol, i + 1)

initialPrices(PF, d) ==
    LET found == { s \in allSymbols(PF) : firstValidPrice(d, s, 1) # Undefined }
    IN  [s \in found |-> firstValidPrice(d, s, 1)]

\* mutant: the investment is not divided by the initial price
sharesOfUndivided(entry, prices) ==
    LET initialPrice == Get(prices, entry.key)
    IN  IF IsValidPrice(initialPrice) THEN Num(entry.amount) ELSE Num(0)

\* shares[person][symbol] for one entry of a portfolio
sharesOf(entry, prices) ==
    LET initialPrice == Get(prices, entry.key)
    IN  IF IsValidPrice(initialPrice)
        THEN Div(Num(entry.amount), initialPrice)
        ELSE Num(0)

shares(PF, d) ==
    LET prices == initialPrices(PF, d)
    IN  [i \in 1..Len(PF) |->
            [j \in 1..Len(PF[i].entries) |-> sharesOf(PF[i].entries[j], prices)]]

\* mutant: the scan runs forwards from the first row and stops at the oldest
\* valid price
lookBackwardsOldest(d, symbol, i) ==
    LET valid == { q \in 1..i : IsValidPrice(Cell(d[q], symbol)) }
    IN  IF valid = {} THEN Null
        ELSE Cell(d[CHOOSE q \in valid : \A o \in valid : q <= o], symbol)

\* Rule 2: for (let i = pointIndex - 1; i >= 0; i--), first valid price found
RECURSIVE lookBackwards(_, _, _)
lookBackwards(d, symbol, i) ==
    IF i < 1 THEN Null
    ELSE IF IsValidPrice(Cell(d[i], symbol)) THEN Cell(d[i], symbol)
    ELSE lookBackwards(d, symbol, i - 1)

\* Rules 1 and 2: the price of the current date if valid, else the scan
priceToUse(d, pointIndex, symbol) ==
    LET currentPrice == Cell(d[pointIndex], symbol)
    IN  IF IsValidPrice(currentPrice) THEN currentPrice
        ELSE lookBackwards(d, symbol, pointIndex - 1)

\* mutant: the cash_amount key is handled like a ticker
cashIsTicker(k) == FALSE

\* symbol === "cash_amount"
isCashKey(k) == k = "cash_amount"

\* mutant: the check for a zero share count is missing
neverSkip(numShares) == FALSE

\* numShares === 0
noShares(numShares) == numShares.n = 0

\* mutant: Rule 3 is missing, a position without a resolved price adds nothing
symbolStepNoFallback(entry, numShares, d, pointIndex) ==
    IF isCashKey(entry.key)
    THEN [rule |-> "cash", numShares |-> numShares, price |-> Null,
          add |-> Num(entry.amount)]
    ELSE IF noShares(numShares)
    THEN [rule |-> "skip", numShares |-> numShares, price |-> Null,
          add |-> Num(0)]
    ELSE LET p == priceToUse(d, pointIndex, entry.key)
         IN  IF p = Null
             THEN [rule |-> "investment", numShares |-> numShares,
                   price |-> Null, add |-> Num(0)]
             ELSE [rule |-> "priced", numShares |-> numShares,
                   price |-> p, add |-> Mul(numShares, p)]

\* mutant: a position without shares is valued at its investment
symbolStepSkipAddsInvestment(entry, numShares, d, pointIndex) ==
    IF isCashKey(entry.key)
    THEN [rule |-> "cash", numShares |-> numShares, price |-> Null,
          add |-> Num(entry.amount)]
    ELSE IF noShares(numShares)
    THEN [rule |-> "skip", numShares |-> numShares, price |-> Null,
          add |-> Num(entry.amount)]
    ELSE LET p == priceToUse(d, pointIndex, entry.key)
         IN  IF p = Null
             THEN [rule |-> "investment", numShares |-> numShares,
                   price |-> Null, add |-> Num(entry.amount)]
             ELSE [rule |-> "priced", numShares |-> numShares,
                   price |-> p, add |-> Mul(numShares, p)]

\* the body of Object.keys(portfolio).forEach for one key: which branch ran,
\* the share count, the price it used and what it added to totalValue
symbolStep(entry, numShares, d, pointIndex) ==
    IF isCashKey(entry.key)
    THEN [rule |-> "cash", numShares |-> numShares, price |-> Null,
          add |-> Num(entry.amount)]
    ELSE IF noShares(numShares)
    THEN [rule |-> "skip", numShares |-> numShares, price |-> Null,
          add |-> Num(0)]
    ELSE LET p == priceToUse(d, pointIndex, entry.key)
         IN  IF p = Null
             THEN [rule |-> "investment", numShares |-> numShares,
                   price |-> Null, add |-> Num(entry.amount)]
             ELSE [rule |-> "priced", numShares |-> numShares,
                   price |-> p, add |-> Mul(numShares, p)]

\* per row and person, the steps of the keys of the portfolio in key order
portfolioSteps(PF, d) ==
    LET sh == shares(PF, d)
    IN  [r \in 1..Len(d) |->
            [i \in 1..Len(PF) |->
                [j \in 1..Len(PF[i].entries) |->
                    symbolStep(PF[i].entries[j], sh[i][j], d, r)]]]

\* let totalValue = 0; totalValue += ... over the keys
RECURSIVE totalValue(_, _)
totalValue(steps, j) ==
    IF j = 0 THEN Num(0) ELSE Add(totalValue(steps, j - 1), steps[j].add)

\* mutant: a sequence whose dates are not strictly ascending yields no points
calculatePortfolioDataChecked(PF, d, steps) ==
    IF \A r \in 1..(Len(d) - 1) : TupleLess(d[r].date, d[r + 1].date)
    THEN [r \in 1..Len(d) |->
            [date |-> d[r].date,
             vals |-> [person \in { PF[i].name : i \in 1..Len(PF) } |->
                         LET i == CHOOSE k \in 1..Len(PF) : PF[k].name = person
                         IN  totalValue(steps[r][i], Len(steps[r][i]))]]]
    ELSE <<>>

\* data.map(...): one portfolioPoint per row, in row order
calculatePortfolioData(PF, d, steps) ==
    [r \in 1..Len(d) |->
        [date |-> d[r].date,
         vals |-> [person \in { PF[i].name : i \in 1..Len(PF) } |->
                     LET i == CHOOSE k \in 1..Len(PF) : PF[k].name = person
                     IN  totalValue(steps[r][i], Len(steps[r][i]))]]]

-----------------------------------------------------------------------------
(* Sorting of strings (month keys, date strings, symbols) *)

\* Array.prototype.sort() of a set of distinct tuples, ascending
RECURSIVE sortTuples(_)
sortTuples(S) ==
    IF S = {} THEN <<>>
    ELSE LET m == CHOOSE x \in S : \A y \in S \ {x} : TupleLess(x, y)
         IN  <<m>> \o sortTuples(S \ {m})

\* the keys of the model in the order of their strings (UTF-16 code units:
\* upper case before lower case)
KeyOrder == <<"AAA", "BBB", "CCC", "cash_amount">>

KeyIndex(k) == CHOOSE i \in 1..Len(KeyOrder) : KeyOrder[i] = k

RECURSIVE sortKeys(_)
sortKeys(S) ==
    IF S = {} THEN <<>>
    ELSE LET m == CHOOSE x \in S : \A y \in S : KeyIndex(x) <= KeyIndex(y)
         IN  <<m>> \o sortKeys(S \ {m})

-----------------------------------------------------------------------------
(* portfoliosHelper.getAllStocks *)

\* if (stock !== "cash_amount") allStocksSet.add(stock)
isStockKey(stock) == stock # "cash_amount"

getAllStocks(PF) ==
    sortKeys({ s \in UNION { { PF[i].entries[j].key :
                                 j \in 1..Len(PF[i].entries) } :
                               i \in 1..Len(PF) } : isStockKey(s) })

-----------------------------------------------------------------------------
(* The January 1 data point, shared by PortfolioTable and StockTable *)

\* points.find(local year, month and day of the point = those of
\* new Date(`${year}-01-01`)); the first data point if there is none
jan1DataPoint(points, yr, west) ==
    LET jan1Date == LocalDate(<<yr, 1, 1>>, west)
        hits == { r \in 1..Len(points) :
                    LocalDate(points[r].date, west) = jan1Date }
    IN  IF hits # {}
        THEN points[CHOOSE r \in hits : \A q \in hits : r <= q]
        ELSE IF Len(points) > 0 THEN points[1]
        ELSE Undefined

\* Math.round of a number: floor(x + 1/2)
MathRound(x) == (2 * x.n + x.d) \div (2 * x.d)

\* mutant: two-way styling, a change of exactly 0 is styled as a gain
formatYTDGrowthTwoWay(value, baseline) ==
    LET change == Sub(value, baseline)
    IN  [t |-> "change",
         change |-> change,
         color |-> IF change.n >= 0 THEN "#10b981" ELSE "#ef4444",
         arrow |-> IF change.n >= 0 THEN "up" ELSE "down",
         plus |-> change.n >= 0,
         rounded |-> MathRound(change)]

\* formatYTDGrowth and the text of the cell
formatYTDGrowth(value, baseline) ==
    LET change == Sub(value, baseline)
        isPositive == change.n > 0
        isNegative == change.n < 0
    IN  [t |-> "change",
         change |-> change,
         color |-> IF isPositive THEN "#10b981"
                   ELSE IF isNegative THEN "#ef4444" ELSE "#6b7280",
         arrow |-> IF isPositive THEN "up"
                   ELSE IF isNegative THEN "down" ELSE "",
         plus |-> change.n >= 0,
         rounded |-> MathRound(change)]

Dash == [t |-> "dash"]

\* mutant: the check of the baseline is missing, a missing baseline counts as 0
tableCellUnchecked(currentValue, baseline) ==
    IF currentValue = Null \/ currentValue = Undefined THEN Dash
    ELSE formatYTDGrowth(IF IsNumber(currentValue) THEN currentValue
                         ELSE Num(0),
                         IF IsNumber(baseline) THEN baseline ELSE Num(0))

\* one <td>: "-" without a month value or without a baseline, else the change
tableCell(currentValue, baseline) ==
    IF currentValue = Null \/ currentValue = Undefined THEN Dash
    ELSE IF baseline = Undefined \/ (IsNumber(baseline) /\ baseline.n = 0)
    THEN Dash
    ELSE formatYTDGrowth(IF IsNumber(currentValue) THEN currentValue
                         ELSE Num(0), baseline)

EmptyObject == [x \in {} |-> Null]

-----------------------------------------------------------------------------
(* PortfolioTable: baseline, monthly rows and cells *)

\* jan1Baseline[person] = (jan1DataPoint[person] as number) || 0
portfolioJan1Baseline(pd, yr, west) ==
    LET p == jan1DataPoint(pd, yr, west)
    IN  IF p = Undefined THEN EmptyObject
        ELSE [person \in DOMAIN p.vals |->
                 IF p.vals[person].n = 0 THEN Num(0) ELSE p.vals[person]]

\* monthlyData after the first r points of portfolioData.forEach: each point
\* overwrites the values of its (local) month
RECURSIVE portfolioMonthlyData(_, _, _)
portfolioMonthlyData(pd, west, r) ==
    IF r = 0 THEN EmptyObject
    ELSE LET prev == portfolioMonthlyData(pd, west, r - 1)
             monthKey == MonthKeyOf(pd[r].date, west)
         IN  [k \in DOMAIN prev \cup {monthKey} |->
                 IF k = monthKey THEN pd[r].vals ELSE prev[k]]

\* Object.keys(monthlyData).sort().map(key => ({key, ...monthlyData[key]}))
portfolioMonthlyRows(pd, west) ==
    LET monthlyData == portfolioMonthlyData(pd, west, Len(pd))
        keys == sortTuples(DOMAIN monthlyData)
    IN  [i \in 1..Len(keys) |-> [key |-> keys[i], vals |-> monthlyData[keys[i]]]]

renderPortfolioTable(PF, pd, yr, west) ==
    LET jan1Baseline == portfolioJan1Baseline(pd, yr, west)
        monthlyRows == portfolioMonthlyRows(pd, west)
    IN  [jan1Baseline |-> jan1Baseline,
         monthlyRows |-> monthlyRows,
         cells |-> [i \in 1..Len(monthlyRows) |->
                      [person \in { PF[k].name : k \in 1..Len(PF) } |->
                          tableCell(Get(monthlyRows[i].vals, person),
                                    Get(jan1Baseline, person))]]]

-----------------------------------------------------------------------------
(* StockTable: baseline, expected months, monthly rows and cells *)

Range(seq) == { seq[i] : i \in 1..Len(seq) }

\* if (typeof price === "number" && price > 0) jan1Baseline[symbol] = price
stockJan1Baseline(d, syms, yr, west) ==
    LET p == jan1DataPoint(d, yr, west)
    IN  IF p = Undefined THEN EmptyObject
        ELSE [s \in { x \in Range(syms) : IsValidPrice(Cell(p, x)) } |->
                 Cell(p, s)]

\* months 1..maxMonth of the year, maxMonth being the current month in the
\* current year and 12 otherwise
getExpectedMonths(yr, td) ==
    LET maxMonth == IF yr = td[1] THEN td[2] ELSE 12
    IN  [month \in 1..maxMonth |-> <<yr, month>>]

\* monthlyData after the first r points of data.forEach: a point whose (local)
\* month is expected overwrites the month's value of every symbol for which
\* it has a valid price
RECURSIVE stockMonthlyData(_, _, _, _, _)
stockMonthlyData(d, syms, expectedMonths, west, r) ==
    IF r = 0
    THEN [k \in Range(expectedMonths) |-> [s \in Range(syms) |-> Null]]
    ELSE LET prev == stockMonthlyData(d, syms, expectedMonths, west, r - 1)
             monthKey == MonthKeyOf(d[r].date, west)
         IN  [k \in DOMAIN prev |->
                 IF k = monthKey
                 THEN [s \in Range(syms) |->
                          IF IsValidPrice(Cell(d[r], s)) THEN Cell(d[r], s)
                          ELSE prev[k][s]]
                 ELSE prev[k]]

renderStockTable(d, syms, yr, td, west) ==
    LET jan1Baseline == stockJan1Baseline(d, syms, yr, west)
        expectedMonths == getExpectedMonths(yr, td)
        monthlyData == stockMonthlyData(d, syms, expectedMonths, west, Len(d))
        monthlyRows == [i \in 1..Len(expectedMonths) |->
                           [key |-> expectedMonths[i],
                            vals |-> monthlyData[expectedMonths[i]]]]
    IN  [jan1Baseline |-> jan1Baseline,
         monthlyRows |-> monthlyRows,
         cells |-> [i \in 1..Len(monthlyRows) |->
                      [s \in Range(syms) |->
                          tableCell(Get(monthlyRows[i].vals, s),
                                    Get(jan1Baseline, s))]]]

-----------------------------------------------------------------------------
(* PortfolioGrid: latest value, gain, order and rank of every portfolio *)

Less(x, y) == x.n * y.d < y.n * x.d

\* for (let i = data.length - 1; i >= 0; i--), first valid price found
RECURSIVE getLatestPriceFrom(_, _, _)
getLatestPriceFrom(d, symbol, i) ==
    IF i < 1 THEN Null
    ELSE IF IsValidPrice(Cell(d[i], symbol)) THEN Cell(d[i], symbol)
    ELSE getLatestPriceFrom(d, symbol, i - 1)

\* mutant: only the last data point is looked at
getLatestPriceOfLastPoint(d, symbol) ==
    IF Len(d) >= 1 /\ IsValidPrice(Cell(d[Len(d)], symbol))
    THEN Cell(d[Len(d)], symbol)
    ELSE Null

getLatestPrice(d, symbol) == getLatestPriceFrom(d, symbol, Len(d))

\* what one entry of the portfolio adds to totalValue in getPortfolioValue
entryValue(entry, d) ==
    IF entry.key = "cash_amount" THEN Num(entry.amount)
    ELSE LET currentPrice == getLatestPrice(d, entry.key)
             initialPrice == firstValidPrice(d, entry.key, 1)
         IN  IF IsValidPrice(currentPrice) /\ IsValidPrice(initialPrice)
             THEN Mul(Div(Num(entry.amount), initialPrice), currentPrice)
             ELSE Num(0)

\* getPortfolioValue over the first j entries of the portfolio
RECURSIVE getPortfolioValue(_, _, _)
getPortfolioValue(entries, d, j) ==
    IF j = 0 THEN Num(0)
    ELSE Add(getPortfolioValue(entries, d, j - 1), entryValue(entries[j], d))

\* mutant: the cash_amount entry is left out of the invested total
totalInvestmentWithoutCash(entries, j) ==
    LET tickers == { k \in 1..j : entries[k].key # "cash_amount" }
        RECURSIVE sum(_)
        sum(S) == IF S = {} THEN 0
                  ELSE LET k == CHOOSE x \in S : TRUE
                       IN  entries[k].amount + sum(S \ {k})
    IN  Num(sum(tickers))

\* Object.values(portfolio).reduce((sum, val) => sum + val, 0)
RECURSIVE totalInvestment(_, _)
totalInvestment(entries, j) ==
    IF j = 0 THEN Num(0)
    ELSE Add(totalInvestment(entries, j - 1), Num(entries[j].amount))

\* people.map(person => ({person, gain, portfolioValue, totalInvestment}))
gainOf(p, d) ==
    LET portfolioValue == getPortfolioValue(p.entries, d, Len(p.entries))
        invested == totalInvestment(p.entries, Len(p.entries))
    IN  [person |-> p.name,
         gain |-> Sub(portfolioValue, invested),
         portfolioValue |-> portfolioValue,
         totalInvestment |-> invested]

\* mutant: no portfolio is filtered out of the ranking
anyDefinition(entries) == TRUE

\* Object.keys(portfolio).length > 0
nonEmptyDefinition(entries) == Len(entries) > 0

\* the names of the model in the order of String.prototype.localeCompare
NameCollation == <<"Alice", "Bob", "Carl", "Dave", "Zed">>

NamePosition(name) == CHOOSE i \in 1..Len(NameCollation) : NameCollation[i] = name

\* a.person.localeCompare(b.person) < 0
localeCompareLess(a, b) == NamePosition(a) < NamePosition(b)

\* mutant: equal gains are ordered by name descending
sortsBeforeNameDescending(a, b) ==
    IF b.gain # a.gain THEN Less(b.gain, a.gain)
    ELSE localeCompareLess(b.person, a.person)

\* the comparator of the sort is negative: a sorts before b
sortsBefore(a, b) ==
    IF b.gain # a.gain THEN Less(b.gain, a.gain)
    ELSE localeCompareLess(a.person, b.person)

\* Array.prototype.sort with the comparator, which is a strict total order
\* on items with distinct names
RECURSIVE sortByGain(_)
sortByGain(S) ==
    IF S = {} THEN <<>>
    ELSE LET first == CHOOSE a \in S : \A b \in S \ {a} : ~sortsBefore(b, a)
         IN  <<first>> \o sortByGain(S \ {first})

\* people.map(...).filter(...).sort(...)
peopleWithGains(PF, d) ==
    sortByGain({ gainOf(PF[i], d) :
                   i \in { k \in 1..Len(PF) : nonEmptyDefinition(PF[k].entries) } })

\* for (let i = index - 1; i >= 0; i--) { same gain ? rank = i + 1 : break }
RECURSIVE tieGroupRank(_, _, _, _)
tieGroupRank(list, item, i, rank) ==
    IF i < 1 THEN rank
    ELSE IF list[i].gain = item.gain THEN tieGroupRank(list, item, i - 1, i)
    ELSE rank

\* mutant: every entry gets the rank of its position
rankOfPosition(list, index) == index

\* the rank of the entry at (1-based) position index of the sorted list
rankOf(list, index) ==
    IF index > 1 /\ list[index - 1].gain = list[index].gain
    THEN tieGroupRank(list, list[index], index - 1, index)
    ELSE index

rankedPeople(list) ==
    [index \in 1..Len(list) |->
        [person |-> list[index].person,
         gain |-> list[index].gain,
         portfolioValue |-> list[index].portfolioValue,
         totalInvestment |-> list[index].totalInvestment,
         rank |-> rankOf(list, index)]]

\* totalInvestment > 0 ? (gain / totalInvestment) * 100 : 0
gainPercent(gain, invested) ==
    IF invested.n > 0 THEN Mul(Div(gain, invested), Num(100)) ELSE Num(0)

\* the cards of the grid in ranked order, each with its gain percent
renderPortfolioGrid(PF, d) ==
    LET ranked == rankedPeople(peopleWithGains(PF, d))
    IN  [rankedPeople |-> ranked,
         cards |-> [k \in 1..Len(ranked) |->
                      [person |-> ranked[k].person,
                       rank |-> ranked[k].rank,
                       gainPercent |-> gainPercent(ranked[k].gain,
                                                   ranked[k].totalInvestment)]]]

-----------------------------------------------------------------------------
(* stockDataService / update_stocks.js: fetchStockData and the loops over    *)
(* the symbols                                                               *)

\* what the price API can answer to one request: a series (empty or not), a
\* 429 with or without a Retry-After header, or another failure
Responses ==
    { [status |-> 200, series |-> "data", retryAfter |-> Null],
      [status |-> 200, series |-> "empty", retryAfter |-> Null],
      [status |-> 429, series |-> "none", retryAfter |-> Null],
      [status |-> 429, series |-> "none", retryAfter |-> Num(5)],
      [status |-> 500, series |-> "none", retryAfter |-> Null] }

\* the price array that a call returns for a response with a series
priceArray(response) == [t |-> "array", nonEmpty |-> response.series = "data"]

\* Math.pow(2, attempt)
RECURSIVE Pow2(_)
Pow2(k) == IF k = 0 THEN 1 ELSE 2 * Pow2(k - 1)

\* retryAfter ? parseInt(retryAfter) * 1000 : Math.pow(2, attempt) * 1000
rateLimitWaitTime(response, attempt) ==
    IF response.retryAfter # Null THEN response.retryAfter.n * 1000
    ELSE Pow2(attempt) * 1000

\* new Error(`Failed to fetch data for ${symbol}: ${response.status} ...`)
httpError(symbol, response) ==
    [kind |-> "http", symbol |-> symbol, status |-> response.status]

\* new Error(`Failed to fetch data for ${symbol} after ${retries} attempts`)
exhaustedError(symbol, retries) ==
    [kind |-> "exhausted", symbol |-> symbol, retries |-> retries]

\* retries: number = 3
DefaultRetries == 3

\* the call fetchStockData(symbol, year, retries) before its first request;
\* version "service" is stockDataService.ts, "script" is update_stocks.js
newCall(symbol, retries, version) ==
    [t |-> "call", symbol |-> symbol, retries |-> retries, version |-> version,
     attempt |-> 0, requests |-> 0, responses |-> <<>>, waits |-> <<>>,
     pc |-> "request", outcome |-> "pending", value |-> Undefined,
     error |-> Null]

\* the loop has ended without a return: stockDataService.ts throws,
\* update_stocks.js has no statement after the loop and returns undefined
afterLoop(c) ==
    IF c.version = "service"
    THEN [c EXCEPT !.pc = "done", !.outcome = "thrown",
                   !.error = exhaustedError(c.symbol, c.retries)]
    ELSE [c EXCEPT !.pc = "done", !.outcome = "returned", !.value = Undefined]

\* mutant: there is no wait between two requests
loopIterationNoWait(c, response) ==
    LET c1 == [c EXCEPT !.requests = @ + 1,
                        !.responses = Append(@, response)]
    IN  IF response.status = 200
        THEN [c1 EXCEPT !.pc = "done", !.outcome = "returned",
                        !.value = priceArray(response)]
        ELSE IF c.attempt = c.retries - 1
             THEN afterLoop([c1 EXCEPT !.attempt = @ + 1])
             ELSE [c1 EXCEPT !.attempt = @ + 1]

\* one iteration of for (let attempt = 0; attempt < retries; attempt++)
loopIteration(c, response) ==
    LET c1 == [c EXCEPT !.requests = @ + 1,
                        !.responses = Append(@, response)]
    IN  IF response.status = 429
        THEN LET c2 == [c1 EXCEPT
                          !.waits = Append(@, [attempt |-> c.attempt,
                                               ms |-> rateLimitWaitTime(response,
                                                                        c.attempt)]),
                          !.attempt = @ + 1]
             IN  IF c2.attempt < c2.retries THEN c2 ELSE afterLoop(c2)
        ELSE IF response.status # 200
        THEN IF c.attempt = c.retries - 1
             THEN [c1 EXCEPT !.pc = "done", !.outcome = "thrown",
                             !.error = httpError(c.symbol, response)]
             ELSE [c1 EXCEPT
                     !.waits = Append(@, [attempt |-> c.attempt,
                                          ms |-> Pow2(c.attempt) * 1000]),
                     !.attempt = @ + 1]
        ELSE [c1 EXCEPT !.pc = "done", !.outcome = "returned",
                        !.value = priceArray(response)]

\* errorMessage.includes("429") || errorMessage.includes("rate limit"): the
\* message of an HTTP failure names the status, the message after the last
\* attempt names the symbol and the number of attempts
mentionsRateLimit(error) ==
    \/ error.kind = "http" /\ error.status = 429
    \/ error.kind = "exhausted" /\ error.retries = 429

\* initialDelayMs: number = 2000
InitialDelayMs == 2000

\* rateLimitedDelayMs: number = 12000, delayMs: number = 12000, delay(12000)
RateLimitedDelayMs == 12000

\* the loop over the symbols before its first call; fn is
\* fetchMultipleStockData or fetchMultipleStockDataProgressive of
\* stockDataService.ts, or fetchAllStocks of update_stocks.js
newBatch(fn, syms) ==
    [t |-> "batch", fn |-> fn, symbols |-> syms, i |-> 1,
     currentDelay |-> IF fn = "fetchMultipleStockDataProgressive"
                      THEN InitialDelayMs ELSE RateLimitedDelayMs,
     hasBeenRateLimited |-> FALSE,
     attempted |-> <<>>, dataMap |-> <<>>, outcomes |-> <<>>, delays |-> <<>>,
     pc |-> IF Len(syms) > 0 THEN "call" ELSE "done"]

\* the version of fetchStockData that a loop calls
versionOf(fn) == IF fn = "fetchAllStocks" THEN "script" ELSE "service"

\* what the iteration does with a finished call: data.length > 0 of a series
\* stores or reports it; data.length of undefined throws a TypeError inside
\* the try block
hasData(c) ==
    c.outcome = "returned" /\ c.value.t = "array" /\ c.value.nonEmpty

\* what the model keeps of a finished call: its symbol, how it ended and
\* whether every one of its requests was answered with 429
summaryOf(c) ==
    [symbol |-> c.symbol, outcome |-> c.outcome, hasData |-> hasData(c),
     error |-> c.error,
     all429 |-> \A k \in 1..Len(c.responses) : c.responses[k].status = 429]

\* mutant: the first failed symbol ends the loop
afterCallAbortOnFailure(b, c) ==
    IF c.outcome = "returned" /\ c.value.t = "array"
    THEN LET last == b.i = Len(b.symbols)
         IN  [b EXCEPT !.dataMap = IF hasData(c) THEN Append(@, c.symbol) ELSE @,
                       !.outcomes = Append(@, summaryOf(c)),
                       !.delays = IF last THEN @ ELSE Append(@, b.currentDelay),
                       !.i = @ + 1,
                       !.pc = IF last THEN "done" ELSE "call"]
    ELSE [b EXCEPT !.outcomes = Append(@, summaryOf(c)), !.pc = "done"]

\* the rest of the loop body after await fetchStockData: the try block, the
\* catch block and the delay before the next symbol
afterCall(b, c) ==
    LET last == b.i = Len(b.symbols)
        rateLimited == /\ b.fn = "fetchMultipleStockDataProgressive"
                       /\ c.outcome = "thrown"
                       /\ mentionsRateLimit(c.error)
                       /\ ~b.hasBeenRateLimited
        delayNow == IF rateLimited THEN RateLimitedDelayMs ELSE b.currentDelay
    IN  [b EXCEPT !.dataMap = IF hasData(c) THEN Append(@, c.symbol) ELSE @,
                  !.outcomes = Append(@, summaryOf(c)),
                  !.hasBeenRateLimited = @ \/ rateLimited,
                  !.currentDelay = delayNow,
                  !.delays = IF last THEN @ ELSE Append(@, delayNow),
                  !.i = @ + 1,
                  !.pc = IF last THEN "done" ELSE "call"]

-----------------------------------------------------------------------------
(* combineStockData: one row per date of the fetched series *)

\* stockDataMap.forEach((data) => data.forEach((point) =>
\* allDates.add(point.date))): a Set, so every date string is kept once
allDates(map) ==
    UNION { { map[s][k].date : k \in 1..Len(map[s]) } : s \in DOMAIN map }

\* stockDataMap.get(symbol)?.find((p) => p.date === date): the first point
\* of the series with that date, undefined without one or without a series
findPoint(map, symbol, date) ==
    IF symbol \notin DOMAIN map THEN Undefined
    ELSE LET hits == { k \in 1..Len(map[symbol]) : map[symbol][k].date = date }
         IN  IF hits = {} THEN Undefined
             ELSE map[symbol][CHOOSE k \in hits : \A j \in hits : k <= j]

\* point?.price ?? missing
priceOrElse(point, missing) ==
    IF point = Undefined THEN missing
    ELSE IF point.price = Null \/ point.price = Undefined THEN missing
    ELSE point.price

\* Array.from(allDates).sort().forEach((date) => ...): one data point per
\* date with one property per symbol of stocks
combineByDate(map, stocks, missing) ==
    LET ds == sortTuples(allDates(map))
    IN  [r \in 1..Len(ds) |->
            [date |-> ds[r],
             cols |-> [sym \in Range(stocks) |->
                          priceOrElse(findPoint(map, sym, ds[r]), missing)]]]

\* combineStockData of App.tsx: dataPoint[symbol] = point?.price ?? null
combineStockData(map, stocks) == combineByDate(map, stocks, Null)

\* combineStockData of data/portfolios.ts: dataPoint[symbol] = point?.price ?? 0
combineStockDataOfPortfolios(map, stocks) == combineByDate(map, stocks, Num(0))

-----------------------------------------------------------------------------
(* scripts/update_stocks.js: Stooq first, Massive as the fallback *)

\* a symbol of STOCKS as the script reads it: its CRYPTO: prefix, or none,
\* and the rest of the string
Stock(ticker) == [prefix |-> "", ticker |-> ticker]

Crypto(ticker) == [prefix |-> "CRYPTO:", ticker |-> ticker]

\* symbol.startsWith("CRYPTO:")
isCrypto(symbol) == symbol.prefix = "CRYPTO:"

\* symbol.replace("CRYPTO:", "")
extractCryptoTicker(symbol) == symbol.ticker

\* const DELAY_BETWEEN_REQUESTS_MS = 5000
DELAY_BETWEEN_REQUESTS_MS == 5000

\* what axios.get and parse give for one request to Stooq: CSV records, an
\* empty CSV, or an exception (a network error or a status outside 2xx)
StooqResponses == {"records", "empty", "error"}

\* what fetchCryptoData and fetchStockDataFromMassive give: a series, an
\* empty array, or an exception
FetcherResults == {"data", "empty", "thrown"}

\* one iteration of the retry loop of fetchStockData(ticker, retries)
stooqLoopIteration(c, response) ==
    LET c1 == [c EXCEPT !.requests = @ + 1,
                        !.responses = Append(@, response)]
    IN  IF response = "empty"
        THEN [c1 EXCEPT !.pc = "done", !.outcome = "returned",
                        !.value = [t |-> "array", nonEmpty |-> FALSE]]
        ELSE IF response = "records"
        THEN [c1 EXCEPT !.pc = "done", !.outcome = "returned",
                        !.value = [t |-> "array", nonEmpty |-> TRUE]]
        ELSE IF c.attempt = c.retries - 1
        THEN [c1 EXCEPT !.pc = "done", !.outcome = "thrown",
                        !.error = [kind |-> "axios", symbol |-> c.symbol,
                                   status |-> 0]]
        ELSE [c1 EXCEPT
                !.waits = Append(@, [attempt |-> c.attempt,
                                     ms |-> Pow2(c.attempt) * 1000]),
                !.attempt = @ + 1]

\* fetchAllStocks before its first symbol
newStooqBatch(stocks) ==
    [t |-> "stooq", symbols |-> stocks, i |-> 1,
     dataMap |-> <<>>, outcomes |-> <<>>, delays |-> <<>>,
     sent |-> <<>>, stooq |-> "none",
     pc |-> IF Len(stocks) > 0 THEN "symbol" ELSE "done"]

\* a request leaves for a service
sendTo(b, service, ticker) ==
    [b EXCEPT !.sent = Append(@, [to |-> service, ticker |-> ticker])]

\* the end of an iteration, in the try block or in the catch block: the
\* series is stored if data.length > 0, the symbol is reported otherwise,
\* and the delay follows unless this was the last symbol
endOfIteration(b, stored, tried) ==
    LET last == b.i = Len(b.symbols)
    IN  [b EXCEPT
           !.dataMap = IF stored THEN Append(@, b.symbols[b.i]) ELSE @,
           !.outcomes = Append(@, [symbol |-> b.symbols[b.i], stooq |-> b.stooq,
                                   tried |-> tried, stored |-> stored]),
           !.delays = IF last THEN @
                      ELSE Append(@, [after |-> b.i,
                                      ms |-> DELAY_BETWEEN_REQUESTS_MS]),
           !.stooq = "none",
           !.i = @ + 1,
           !.pc = IF last THEN "done" ELSE "symbol"]

-----------------------------------------------------------------------------
(* scripts/update_stocks_stooq.js: the update from Yahoo Finance *)

\* a string as the sequence of its parts: a symbol is one part
symbolString(symbol) == <<symbol>>

\* `${result.symbol}_${year}`
yearKey(symbol, y) == <<symbol, "_", ToString(y)>>

\* what fetchStockData(symbol, year) gives: { symbol, data } with a series,
\* { symbol, data: [] }, or the exception of a rate limit
YahooResults == {"data", "empty", "rateLimited"}

\* const years = [currentYear - 1, currentYear]
yearsOf(now) == <<now[1] - 1, now[1]>>

\* fetchAllStocks before its first year
newYahooBatch(stocks, now) ==
    [t |-> "yahoo", symbols |-> stocks, years |-> yearsOf(now), y |-> 1,
     obtained |-> <<>>, dataMap |-> <<>>, pc |-> "year"]

\* results.forEach((result) => ...): the keys that one year adds to dataMap
RECURSIVE keysOfYear(_, _, _, _)
keysOfYear(stocks, y, results, k) ==
    IF k = 0 THEN <<>>
    ELSE IF results[k] = "data"
         THEN Append(keysOfYear(stocks, y, results, k - 1), yearKey(stocks[k], y))
         ELSE keysOfYear(stocks, y, results, k - 1)

\* the series that one year obtained, as symbol and year
RECURSIVE seriesOfYear(_, _, _, _)
seriesOfYear(stocks, y, results, k) ==
    IF k = 0 THEN <<>>
    ELSE IF results[k] = "data"
         THEN Append(seriesOfYear(stocks, y, results, k - 1),
                     [symbol |-> stocks[k], year |-> y])
         ELSE seriesOfYear(stocks, y, results, k - 1)

\* one iteration of for (const year of years): Promise.all rejects if one
\* fetch throws, and the exception ends main with process.exit(1)
yahooYear(b, results) ==
    IF \E k \in 1..Len(results) : results[k] = "rateLimited"
    THEN [b EXCEPT !.pc = "fatal"]
    ELSE LET y == b.years[b.y]
             n == Len(b.symbols)
         IN  [b EXCEPT
                !.obtained = @ \o seriesOfYear(b.symbols, y, results, n),
                !.dataMap = @ \o keysOfYear(b.symbols, y, results, n),
                !.y = @ + 1,
                !.pc = IF b.y = Len(b.years) THEN "fetched" ELSE "year"]

\* Object.keys(stockData).forEach((symbol) => { if (validStocks.has(symbol))
\* filteredStockData[symbol] = stockData[symbol] })
filterByPortfolios(keys, stocks) ==
    SelectSeq(keys, LAMBDA key :
                        \E k \in 1..Len(stocks) : symbolString(stocks[k]) = key)

-----------------------------------------------------------------------------
(* App.tsx: the reload button, the year select and the cache *)

\* shouldFetchDataForYear(yearToCheck) with today's local date
shouldFetchDataForYear(yearToCheck, now) ==
    IF yearToCheck > now[1] THEN FALSE
    ELSE IF yearToCheck = now[1]
         THEN now[2] >= 2 \/ (now[2] = 1 /\ now[3] > 1)
         ELSE TRUE

\* mutant: the reload button is never disabled
reloadNeverDisabled == FALSE

\* disabled={loading} of the reload button
reloadDisabled == loading

\* the series that the provider returns for a symbol and a year: the daily
\* closes between `${year}-01-01` and `${year}-12-31`
seriesOfYearFor(symbol, y) ==
    IF symbol = "AAA"
    THEN << [date |-> <<y, 1, 1>>, price |-> Num(100)],
            [date |-> <<y, 1, 2>>, price |-> Num(110)] >>
    ELSE << [date |-> <<y, 1, 2>>, price |-> Num(50)] >>

\* stockDataMap.set(symbol, data)
mapSet(map, symbol, series) ==
    [k \in DOMAIN map \cup {symbol} |-> IF k = symbol THEN series ELSE map[k]]

\* one invocation of handleFetchData that is past shouldFetchDataForYear:
\* the year of its closure, its stockDataMap and its place in the loop of
\* fetchMultipleStockDataProgressive
newRun(y) ==
    [year |-> y, map |-> EmptyObject, loaded |-> <<>>, i |-> 1,
     pc |-> "fetching", path |-> "pending"]

\* an invocation that took the early return
skippedRun(y) ==
    [year |-> y, map |-> EmptyObject, loaded |-> <<>>, i |-> 1,
     pc |-> "done", path |-> "skipped"]

\* saveStockDataToStorage(stockDataMap, finalLoadedStocks, year)
saveStockDataToStorage(store, map, loadedStocks, y) ==
    [k \in DOMAIN store \cup {y} |->
        IF k = y THEN [stockData |-> map, loadedStocks |-> loadedStocks]
        ELSE store[k]]

\* loadCachedData: the rows and the loaded stocks that it sets for the year
loadCachedData(store, y) ==
    IF y \in DOMAIN store
    THEN [combined |-> combineStockData(store[y].stockData,
                                        store[y].loadedStocks),
          loadedStocks |-> store[y].loadedStocks]
    ELSE [combined |-> <<>>, loadedStocks |-> <<>>]

-----------------------------------------------------------------------------
(* Inputs *)

\* the date strings of the model, ascending
DateUniverse == << <<2025, 1, 1>>, <<2025, 1, 2>>, <<2025, 2, 1>>, <<2025, 2, 3>> >>

\* what a row can hold for each fetched symbol; "CCC" is never fetched, so
\* point["CCC"] is undefined in every row
ColChoices ==
    { [AAA |-> a, BBB |-> b] : a \in {Null, Num(0), Num(100), Num(110)},
                               b \in {Null, Num(50)} }

RowsOver(ds) ==
    { [r \in 1..Len(ds) |-> [date |-> ds[r], cols |-> f[r]]] :
        f \in [1..Len(ds) -> ColChoices] }

\* combined data as combineStockData builds it: unique dates, ascending
SortedData(maxLen) ==
    UNION { RowsOver(sortTuples(D)) :
              D \in { X \in SUBSET Range(DateUniverse) : Cardinality(X) <= maxLen } }

\* any sequence of rows, dates in any order and possibly repeated
AnyOrderData(maxLen) ==
    UNION { RowsOver(ds) :
              ds \in UNION { [1..n -> Range(DateUniverse)] : n \in 0..maxLen } }

ScenarioPortfolios ==
    << Person("P", <<Entry("AAA", 30000), Entry("BBB", 70000)>>) >>

MixedPortfolios ==
    << Person("Alice", <<Entry("AAA", 30000), Entry("cash_amount", 20000)>>),
       Person("Bob", <<Entry("CCC", 40000), Entry("AAA", 60000)>>) >>

SinglePortfolios ==
    << Person("Solo", <<Entry("AAA", 30000)>>),
       Person("Zero", <<Entry("AAA", 0), Entry("BBB", 100)>>),
       Person("Empty", <<>>) >>

PortfolioChoices == {ScenarioPortfolios, MixedPortfolios, SinglePortfolios}

YearChoices == {2025, 2026}

TodayChoices == {<<2025, 2, 3>>, <<2026, 1, 15>>}

NotRendered == [t |-> "none"]

Idle == [t |-> "idle"]

\* nothing is being fetched and the application shows nothing
FetchIdle ==
    /\ call = Idle
    /\ batch = Idle
    /\ stocksJson = Idle
    /\ loading = FALSE
    /\ progress = Null
    /\ fetchRuns = <<>>
    /\ storage = EmptyObject
    /\ stockDataMap = Idle

\* the portfolio definitions of the ranking: two equal ones, one with two
\* tickers and cash, an empty one and one with nothing invested
PersonPool ==
    { Person("Alice", <<Entry("AAA", 50000)>>),
      Person("Bob", <<Entry("AAA", 50000)>>),
      Person("Carl", <<Entry("AAA", 30000), Entry("BBB", 20000),
                       Entry("cash_amount", 1000)>>),
      Person("Dave", <<>>),
      Person("Zed", <<Entry("AAA", 0)>>) }

\* PORTFOLIOS objects of up to maxLen people, in any key order
PortfoliosOver(pool, maxLen) ==
    UNION { { f \in [1..n -> pool] : \A i, j \in 1..n : i # j => f[i] # f[j] } :
              n \in 0..maxLen }

\* what a row of the ranking data can hold
RankingColChoices ==
    { [AAA |-> a, BBB |-> b] : a \in {Null, Num(100), Num(110)},
                               b \in {Null, Num(50)} }

\* combined data on the first dates of the year, of up to maxLen rows
RankingData(maxLen) ==
    UNION { { [r \in 1..n |-> [date |-> DateUniverse[r], cols |-> f[r]]] :
                f \in [1..n -> RankingColChoices] } : n \in 0..maxLen }

-----------------------------------------------------------------------------
(* Specification of the portfolio table: module load, valuation, table *)

InitWith(d, portfolioChoices, yearChoices) ==
    /\ PORTFOLIOS \in portfolioChoices
    /\ data = d
    /\ symbols = <<"AAA", "BBB">>
    /\ year \in yearChoices
    /\ today = <<2026, 1, 15>>
    /\ tzWest \in BOOLEAN
    /\ pc = "module"
    /\ STOCKS = <<>>
    /\ portfolioData = <<>>
    /\ contrib = <<>>
    /\ portfolioTable = NotRendered
    /\ stockTable = NotRendered
    /\ portfolioGrid = NotRendered
    /\ FetchIdle

\* the data of 2025 shown for the year 2025
Init ==
    \E d \in SortedData(MaxRows) : InitWith(d, PortfolioChoices, {2025})

\* export const STOCKS = getAllStocks(PORTFOLIOS), evaluated at module load
LoadStocks ==
    /\ pc = "module"
    /\ STOCKS' = getAllStocks(PORTFOLIOS)
    /\ pc' = "render"
    /\ UNCHANGED <<PORTFOLIOS, data, symbols, year, today, tzWest,
                   portfolioData, contrib, portfolioTable, stockTable,
                   portfolioGrid>>
    /\ UNCHANGED fetchVars

\* const portfolioData = calculatePortfolioData()
CalculatePortfolioData ==
    /\ pc = "render"
    /\ LET steps == portfolioSteps(PORTFOLIOS, data)
       IN  /\ contrib' = steps
           /\ portfolioData' = calculatePortfolioData(PORTFOLIOS, data, steps)
    /\ pc' = "valued"
    /\ UNCHANGED <<PORTFOLIOS, data, symbols, year, today, tzWest, STOCKS,
                   portfolioTable, stockTable, portfolioGrid>>
    /\ UNCHANGED fetchVars

\* the rest of the render of PortfolioTable
RenderPortfolioTable ==
    /\ pc = "valued"
    /\ portfolioTable' = renderPortfolioTable(PORTFOLIOS, portfolioData, year, tzWest)
    /\ pc' = "done"
    /\ UNCHANGED <<PORTFOLIOS, data, symbols, year, today, tzWest, STOCKS,
                   portfolioData, contrib, stockTable, portfolioGrid>>
    /\ UNCHANGED fetchVars

Next == LoadStocks \/ CalculatePortfolioData \/ RenderPortfolioTable

Spec == Init /\ [][Next]_vars

\* the same render over rows in any date order
InitAnyOrder ==
    \E d \in AnyOrderData(MaxRowsAnyOrder) :
        InitWith(d, {MixedPortfolios}, {2025})

SpecAnyOrder == InitAnyOrder /\ [][Next]_vars

-----------------------------------------------------------------------------
(* Specification of the stock table *)

InitStockTable ==
    /\ PORTFOLIOS = ScenarioPortfolios
    /\ data \in SortedData(MaxRows)
    /\ symbols \in {<<"AAA", "BBB">>, <<"BBB", "AAA", "CCC">>}
    /\ year \in YearChoices
    /\ today \in TodayChoices
    /\ tzWest \in BOOLEAN
    /\ pc = "stock"
    /\ STOCKS = <<>>
    /\ portfolioData = <<>>
    /\ contrib = <<>>
    /\ portfolioTable = NotRendered
    /\ stockTable = NotRendered
    /\ portfolioGrid = NotRendered
    /\ FetchIdle

RenderStockTable ==
    /\ pc = "stock"
    /\ stockTable' = renderStockTable(data, symbols, year, today, tzWest)
    /\ pc' = "done"
    /\ UNCHANGED <<PORTFOLIOS, data, symbols, year, today, tzWest, STOCKS,
                   portfolioData, contrib, portfolioTable, portfolioGrid>>
    /\ UNCHANGED fetchVars

NextStockTable == RenderStockTable

SpecStockTable == InitStockTable /\ [][NextStockTable]_vars

-----------------------------------------------------------------------------
(* Specification of the two table views of the application, the portfolio  *)
(* table followed by the stock table, over the same combined data          *)

InitTables ==
    /\ PORTFOLIOS = SinglePortfolios
    /\ data \in SortedData(MaxRows)
    /\ symbols = <<"AAA", "BBB">>
    /\ year = 2025
    /\ today \in TodayChoices
    /\ tzWest \in BOOLEAN
    /\ pc = "module"
    /\ STOCKS = <<>>
    /\ portfolioData = <<>>
    /\ contrib = <<>>
    /\ portfolioTable = NotRendered
    /\ stockTable = NotRendered
    /\ portfolioGrid = NotRendered
    /\ FetchIdle

\* <StockTable data={...} symbols={loadedStocks} year={year} />
RenderStockTableView ==
    /\ pc = "done"
    /\ stockTable = NotRendered
    /\ stockTable' = renderStockTable(data, symbols, year, today, tzWest)
    /\ pc' = "tables"
    /\ UNCHANGED <<PORTFOLIOS, data, symbols, year, today, tzWest, STOCKS,
                   portfolioData, contrib, portfolioTable, portfolioGrid>>
    /\ UNCHANGED fetchVars

NextTables ==
    \/ LoadStocks
    \/ CalculatePortfolioData
    \/ RenderPortfolioTable
    \/ RenderStockTableView

SpecTables == InitTables /\ [][NextTables]_vars

-----------------------------------------------------------------------------
(* Specification of the portfolio grid *)

InitRanking ==
    /\ PORTFOLIOS \in PortfoliosOver(PersonPool, MaxPeople)
    /\ data \in RankingData(MaxRankingRows)
    /\ symbols = <<"AAA", "BBB">>
    /\ year = 2025
    /\ today = <<2026, 1, 15>>
    /\ tzWest = FALSE
    /\ pc = "grid"
    /\ STOCKS = <<>>
    /\ portfolioData = <<>>
    /\ contrib = <<>>
    /\ portfolioTable = NotRendered
    /\ stockTable = NotRendered
    /\ portfolioGrid = NotRendered
    /\ FetchIdle

RenderPortfolioGrid ==
    /\ pc = "grid"
    /\ portfolioGrid' = renderPortfolioGrid(PORTFOLIOS, data)
    /\ pc' = "done"
    /\ UNCHANGED <<PORTFOLIOS, data, symbols, year, today, tzWest, STOCKS,
                   portfolioData, contrib, portfolioTable, stockTable>>
    /\ UNCHANGED fetchVars

NextRanking == RenderPortfolioGrid

SpecRanking == InitRanking /\ [][NextRanking]_vars

-----------------------------------------------------------------------------
(* Specification of the fetching: one fetchStockData call on its own, or a   *)
(* loop over the symbols that calls it for each symbol                       *)

FetchFunctions ==
    {"fetchMultipleStockData", "fetchMultipleStockDataProgressive",
     "fetchAllStocks"}

\* the first maxLen symbols of the portfolios, as STOCKS lists them
SymbolLists(maxLen) == { SubSeq(<<"AAA", "BBB", "CCC">>, 1, n) : n \in 0..maxLen }

ViewsIdle ==
    /\ PORTFOLIOS = ScenarioPortfolios
    /\ tzWest = FALSE
    /\ pc = "idle"
    /\ portfolioData = <<>>
    /\ contrib = <<>>
    /\ portfolioTable = NotRendered
    /\ stockTable = NotRendered
    /\ portfolioGrid = NotRendered

InitFetch ==
    /\ ViewsIdle
    /\ data = <<>>
    /\ symbols = <<>>
    /\ year = 2025
    /\ today = <<2026, 1, 15>>
    /\ STOCKS = <<>>
    /\ \/ /\ batch = Idle
          /\ \E retries \in 1..MaxRetries :
               \E version \in {"service", "script"} :
                   call = newCall("AAA", retries, version)
       \/ /\ call = Idle
          /\ \E fn \in FetchFunctions :
               \E syms \in SymbolLists(MaxSymbols) :
                   batch = newBatch(fn, syms)
    /\ stocksJson = Idle
    /\ loading = FALSE
    /\ progress = Null
    /\ fetchRuns = <<>>
    /\ storage = EmptyObject
    /\ stockDataMap = Idle

\* const data = await fetchStockData(symbol, year): the call starts
CallFetchStockData ==
    /\ batch # Idle
    /\ batch.pc = "call"
    /\ call' = newCall(batch.symbols[batch.i], DefaultRetries, versionOf(batch.fn))
    /\ batch' = [batch EXCEPT !.attempted = Append(@, batch.symbols[batch.i]),
                              !.pc = "await"]
    /\ UNCHANGED <<data, symbols, year, today, STOCKS, stocksJson, loading,
                   progress, fetchRuns, storage, stockDataMap>>
    /\ UNCHANGED viewVars

\* one request of the call and what follows it in the same iteration
FetchStockDataAttempt ==
    /\ call # Idle
    /\ call.pc = "request"
    /\ \E response \in Responses : call' = loopIteration(call, response)
    /\ UNCHANGED <<data, symbols, year, today, STOCKS, batch, stocksJson,
                   loading, progress, fetchRuns, storage, stockDataMap>>
    /\ UNCHANGED viewVars

\* the call has returned or thrown: the loop handles it and moves on
ResumeAfterCall ==
    /\ batch # Idle
    /\ batch.pc = "await"
    /\ call.pc = "done"
    /\ batch' = afterCall(batch, call)
    /\ call' = Idle
    /\ UNCHANGED <<data, symbols, year, today, STOCKS, stocksJson, loading,
                   progress, fetchRuns, storage, stockDataMap>>
    /\ UNCHANGED viewVars

NextFetch == CallFetchStockData \/ FetchStockDataAttempt \/ ResumeAfterCall

SpecFetch == InitFetch /\ [][NextFetch]_vars

-----------------------------------------------------------------------------
(* Specification of combineStockData: a fetched map, then the rows *)

\* the series that fetchStockData returns for a symbol: points of distinct
\* dates in ascending order, closing prices as numbers
SeriesOver(maxLen) ==
    UNION { { [k \in 1..Len(ds) |-> [date |-> ds[k], price |-> f[k]]] :
                f \in [1..Len(ds) -> {Num(0), Num(100)}] } :
            ds \in { sortTuples(D) :
                       D \in { X \in SUBSET Range(DateUniverse) :
                                 Cardinality(X) \in 1..maxLen } } }

\* the maps that the fetch of stocks can build: dataMap.set(symbol, data)
\* only for a symbol of stocks, and only for data.length > 0
StockDataMaps(stocks, maxLen) ==
    UNION { [keys -> SeriesOver(maxLen)] : keys \in SUBSET Range(stocks) }

InitCombine ==
    /\ ViewsIdle
    /\ data = <<>>
    /\ symbols = <<>>
    /\ year = 2025
    /\ today = <<2026, 1, 15>>
    /\ STOCKS = <<"AAA", "BBB">>
    /\ stockDataMap \in StockDataMaps(STOCKS, MaxSeriesLen)
    /\ call = Idle
    /\ batch = Idle
    /\ stocksJson = Idle
    /\ loading = FALSE
    /\ progress = Null
    /\ fetchRuns = <<>>
    /\ storage = EmptyObject

\* App.tsx: setCombinedData(combineStockData(stockDataMap, STOCKS))
AppCombineStockData ==
    /\ pc = "idle"
    /\ data' = combineStockData(stockDataMap, STOCKS)
    /\ pc' = "App.combineStockData"
    /\ UNCHANGED <<PORTFOLIOS, symbols, year, today, tzWest, STOCKS,
                   portfolioData, contrib, portfolioTable, stockTable,
                   portfolioGrid>>
    /\ UNCHANGED fetchVars

\* data/portfolios.ts: combineStockData(stocks) after its fetch
PortfoliosCombineStockData ==
    /\ pc = "idle"
    /\ data' = combineStockDataOfPortfolios(stockDataMap, STOCKS)
    /\ pc' = "portfolios.combineStockData"
    /\ UNCHANGED <<PORTFOLIOS, symbols, year, today, tzWest, STOCKS,
                   portfolioData, contrib, portfolioTable, stockTable,
                   portfolioGrid>>
    /\ UNCHANGED fetchVars

NextCombine == AppCombineStockData \/ PortfoliosCombineStockData

SpecCombine == InitCombine /\ [][NextCombine]_vars

-----------------------------------------------------------------------------
(* Specification of scripts/update_stocks.js: fetchAllStocks *)

\* the symbols that getAllStocksFromAllGroups can return
StooqSymbolPool == <<Stock("AAA"), Stock("BBB"), Crypto("SOL"), Stock("DDD")>>

\* STOCKS: Array.from(new Set(stocks)).sort(), distinct symbols in
\* ascending order, up to maxLen of them
StooqStocks(maxLen) ==
    UNION { { [k \in 1..n |-> StooqSymbolPool[f[k]]] :
                f \in { g \in [1..n -> 1..Len(StooqSymbolPool)] :
                          \A j, k \in 1..n : j < k => g[j] < g[k] } } :
            n \in 0..maxLen }

InitStooq ==
    /\ ViewsIdle
    /\ data = <<>>
    /\ symbols = <<>>
    /\ year = 2025
    /\ today = <<2026, 1, 15>>
    /\ STOCKS \in StooqStocks(MaxSymbols)
    /\ batch = newStooqBatch(STOCKS)
    /\ call = Idle
    /\ stocksJson = Idle
    /\ loading = FALSE
    /\ progress = Null
    /\ fetchRuns = <<>>
    /\ storage = EmptyObject
    /\ stockDataMap = Idle

stooqUnchanged ==
    UNCHANGED <<data, symbols, year, today, STOCKS, stocksJson, loading,
                progress, fetchRuns, storage, stockDataMap>>

\* the iteration of a crypto symbol: fetchCryptoData in its own try block
FetchCryptoSymbol ==
    /\ batch # Idle
    /\ batch.t = "stooq"
    /\ batch.pc = "symbol"
    /\ isCrypto(batch.symbols[batch.i])
    /\ \E result \in FetcherResults :
           batch' = endOfIteration(
                        sendTo(batch, "coingecko",
                               extractCryptoTicker(batch.symbols[batch.i])),
                        result = "data", <<"coingecko">>)
    /\ UNCHANGED call
    /\ stooqUnchanged
    /\ UNCHANGED viewVars

\* the iteration of a regular stock begins: data = await fetchStockData(symbol)
CallStooq ==
    /\ batch # Idle
    /\ batch.t = "stooq"
    /\ batch.pc = "symbol"
    /\ ~isCrypto(batch.symbols[batch.i])
    /\ call' = newCall(batch.symbols[batch.i].ticker, DefaultRetries, "stooq")
    /\ batch' = [batch EXCEPT !.pc = "await"]
    /\ stooqUnchanged
    /\ UNCHANGED viewVars

\* one request to Stooq and what follows it in the same iteration
StooqAttempt ==
    /\ call # Idle
    /\ call.version = "stooq"
    /\ call.pc = "request"
    /\ \E response \in StooqResponses :
           call' = stooqLoopIteration(call, response)
    /\ batch' = sendTo(batch, "stooq", call.symbol)
    /\ stooqUnchanged
    /\ UNCHANGED viewVars

\* fetchStockData has returned or thrown: a series is stored, an empty
\* result goes on to the fallback, an exception goes to the outer catch
AfterStooq ==
    /\ batch # Idle
    /\ batch.t = "stooq"
    /\ batch.pc = "await"
    /\ call.pc = "done"
    /\ batch' =
         IF call.outcome = "thrown"
         THEN endOfIteration([batch EXCEPT !.stooq = "thrown"], FALSE, <<"stooq">>)
         ELSE IF call.value.nonEmpty
         THEN endOfIteration([batch EXCEPT !.stooq = "data"], TRUE, <<"stooq">>)
         ELSE [batch EXCEPT !.stooq = "empty", !.pc = "massive"]
    /\ call' = Idle
    /\ stooqUnchanged
    /\ UNCHANGED viewVars

\* data = await fetchStockDataFromMassive(symbol) in its own try block
MassiveFallback ==
    /\ batch # Idle
    /\ batch.t = "stooq"
    /\ batch.pc = "massive"
    /\ \E result \in FetcherResults :
           batch' = endOfIteration(
                        sendTo(batch, "massive", batch.symbols[batch.i].ticker),
                        result = "data", <<"stooq", "massive">>)
    /\ UNCHANGED call
    /\ stooqUnchanged
    /\ UNCHANGED viewVars

NextStooq ==
    FetchCryptoSymbol \/ CallStooq \/ StooqAttempt \/ AfterStooq \/ MassiveFallback

SpecStooq == InitStooq /\ [][NextStooq]_vars

-----------------------------------------------------------------------------
(* Specification of scripts/update_stocks_stooq.js: fetchAllStocks, main *)

YahooSymbolPool == <<"AAA", "BBB", "CCC">>

\* STOCKS of the script: distinct symbols in ascending order
YahooStocks(maxLen) ==
    UNION { { [k \in 1..n |-> YahooSymbolPool[f[k]]] :
                f \in { g \in [1..n -> 1..Len(YahooSymbolPool)] :
                          \A j, k \in 1..n : j < k => g[j] < g[k] } } :
            n \in 0..maxLen }

InitYahoo ==
    /\ ViewsIdle
    /\ data = <<>>
    /\ symbols = <<>>
    /\ year = 2025
    /\ today = <<2026, 1, 15>>
    /\ STOCKS \in YahooStocks(MaxSymbols)
    /\ batch = newYahooBatch(STOCKS, today)
    /\ call = Idle
    /\ stocksJson = Idle
    /\ loading = FALSE
    /\ progress = Null
    /\ fetchRuns = <<>>
    /\ storage = EmptyObject
    /\ stockDataMap = Idle

\* fetchAllStocks: the fetches of one year and the processing of the results
YahooFetchYear ==
    /\ batch # Idle
    /\ batch.t = "yahoo"
    /\ batch.pc = "year"
    /\ \E results \in [1..Len(batch.symbols) -> YahooResults] :
           batch' = yahooYear(batch, results)
    /\ UNCHANGED <<data, symbols, year, today, STOCKS, call, stocksJson,
                   loading, progress, fetchRuns, storage, stockDataMap>>
    /\ UNCHANGED viewVars

\* main after fetchAllStocks: the filter and fs.writeFileSync
YahooWriteStocksJson ==
    /\ batch # Idle
    /\ batch.t = "yahoo"
    /\ batch.pc = "fetched"
    /\ stocksJson' = [t |-> "json",
                      stocks |-> filterByPortfolios(batch.dataMap, STOCKS)]
    /\ batch' = [batch EXCEPT !.pc = "done"]
    /\ UNCHANGED <<data, symbols, year, today, STOCKS, call, loading, progress,
                   fetchRuns, storage, stockDataMap>>
    /\ UNCHANGED viewVars

NextYahoo == YahooFetchYear \/ YahooWriteStocksJson

SpecYahoo == InitYahoo /\ [][NextYahoo]_vars

-----------------------------------------------------------------------------
(* Specification of App: reload, progress, year change *)

\* what localStorage holds when the page opens: nothing, or the series of
\* an earlier visit, each under its year
StoredChoices ==
    { EmptyObject,
      saveStockDataToStorage(EmptyObject,
                             mapSet(EmptyObject, "AAA", seriesOfYearFor("AAA", 2025)),
                             <<"AAA">>, 2025),
      saveStockDataToStorage(EmptyObject,
                             mapSet(EmptyObject, "BBB", seriesOfYearFor("BBB", 2026)),
                             <<"BBB">>, 2026) }

\* App after its mount: useState defaults and the first loadCachedData
InitApp ==
    /\ ViewsIdle
    /\ year = 2025
    /\ today \in TodayChoices
    /\ STOCKS = <<"AAA", "BBB">>
    /\ storage \in StoredChoices
    /\ data = loadCachedData(storage, 2025).combined
    /\ symbols = loadCachedData(storage, 2025).loadedStocks
    /\ loading = FALSE
    /\ progress = Null
    /\ fetchRuns = <<>>
    /\ call = Idle
    /\ batch = Idle
    /\ stocksJson = Idle
    /\ stockDataMap = Idle

appUnchanged ==
    UNCHANGED <<today, STOCKS, call, batch, stocksJson, stockDataMap>>

\* a click on the reload button: handleFetchData up to its first await, or
\* all of it on the path that skips the fetch
ClickReload ==
    /\ ~reloadDisabled
    /\ Len(fetchRuns) < MaxRuns
    /\ IF ~shouldFetchDataForYear(year, today)
       THEN /\ data' = <<>>
            /\ symbols' = STOCKS
            /\ progress' = Null
            /\ loading' = FALSE
            /\ fetchRuns' = Append(fetchRuns, skippedRun(year))
       ELSE /\ data' = <<>>
            /\ symbols' = <<>>
            /\ progress' = [current |-> "", completed |-> 0, total |-> Len(STOCKS)]
            /\ loading' = TRUE
            /\ fetchRuns' = Append(fetchRuns, newRun(year))
    /\ UNCHANGED <<year, storage>>
    /\ appUnchanged
    /\ UNCHANGED viewVars

\* the fetch of the next symbol of a run ends: with a series the progress
\* callback runs, without one the loop only moves on
FetchNextSymbol ==
    \E k \in 1..Len(fetchRuns) :
        LET run == fetchRuns[k]
        IN  /\ run.pc = "fetching"
            /\ run.i <= Len(STOCKS)
            /\ \E gotData \in BOOLEAN :
                 LET symbol == STOCKS[run.i]
                     map == mapSet(run.map, symbol,
                                   seriesOfYearFor(symbol, run.year))
                 IN  IF gotData
                     THEN /\ fetchRuns' =
                               [fetchRuns EXCEPT
                                  ![k] = [run EXCEPT !.map = map,
                                                     !.loaded = Append(@, symbol),
                                                     !.i = @ + 1]]
                          /\ symbols' = Append(symbols, symbol)
                          /\ progress' = [current |-> symbol, completed |-> run.i,
                                          total |-> Len(STOCKS)]
                          /\ data' = combineStockData(map, STOCKS)
                     ELSE /\ fetchRuns' = [fetchRuns EXCEPT ![k].i = @ + 1]
                          /\ UNCHANGED <<symbols, progress, data>>
            /\ UNCHANGED <<year, storage, loading>>
            /\ appUnchanged
            /\ UNCHANGED viewVars

\* fetchMultipleStockDataProgressive has returned: the save, setProgress(null)
\* in the try or in the catch block, and setLoading(false) in finally
FinishFetchData ==
    \E k \in 1..Len(fetchRuns) :
        LET run == fetchRuns[k]
        IN  /\ run.pc = "fetching"
            /\ run.i > Len(STOCKS)
            /\ \E saved \in BOOLEAN :
                 /\ storage' = IF saved
                               THEN saveStockDataToStorage(storage, run.map,
                                                           run.loaded, run.year)
                               ELSE storage
                 /\ fetchRuns' =
                      [fetchRuns EXCEPT
                         ![k] = [run EXCEPT !.pc = "done",
                                            !.path = IF saved THEN "saved"
                                                     ELSE "error"]]
            /\ progress' = Null
            /\ loading' = FALSE
            /\ UNCHANGED <<year, data, symbols>>
            /\ appUnchanged
            /\ UNCHANGED viewVars

\* the year select changes: setYear and the effect that loads the cache
ChangeYear ==
    /\ \E y \in YearChoices :
         /\ y # year
         /\ year' = y
         /\ data' = loadCachedData(storage, y).combined
         /\ symbols' = loadCachedData(storage, y).loadedStocks
    /\ UNCHANGED <<storage, loading, progress, fetchRuns>>
    /\ appUnchanged
    /\ UNCHANGED viewVars

NextApp == ClickReload \/ FetchNextSymbol \/ FinishFetchData \/ ChangeYear

SpecApp == InitApp /\ [][NextApp]_vars

-----------------------------------------------------------------------------
(* Specification of the two valuations of the same data *)

\* definitions with a ticker and cash, a ticker that is never fetched, two
\* tickers and cash, no entry, and nothing invested in a ticker
ValuedPortfolios ==
    << Person("Alice", <<Entry("AAA", 30000), Entry("cash_amount", 20000)>>),
       Person("Bob", <<Entry("CCC", 40000), Entry("AAA", 60000)>>),
       Person("Carl", <<Entry("AAA", 30000), Entry("BBB", 20000),
                        Entry("cash_amount", 1000)>>),
       Person("Dave", <<>>),
       Person("Zed", <<Entry("AAA", 0), Entry("BBB", 100)>>) >>

InitValuations ==
    /\ PORTFOLIOS = ValuedPortfolios
    /\ data \in SortedData(MaxRows)
    /\ symbols = <<"AAA", "BBB">>
    /\ year = 2025
    /\ today = <<2026, 1, 15>>
    /\ tzWest = FALSE
    /\ pc = "render"
    /\ STOCKS = <<>>
    /\ portfolioData = <<>>
    /\ contrib = <<>>
    /\ portfolioTable = NotRendered
    /\ stockTable = NotRendered
    /\ portfolioGrid = NotRendered
    /\ FetchIdle

\* PortfolioGrid renders the same data, before or after the valuation of
\* PortfolioTable
RenderPortfolioGridBeside ==
    /\ pc \in {"render", "valued"}
    /\ portfolioGrid = NotRendered
    /\ portfolioGrid' = renderPortfolioGrid(PORTFOLIOS, data)
    /\ UNCHANGED <<PORTFOLIOS, data, symbols, year, today, tzWest, pc, STOCKS,
                   portfolioData, contrib, portfolioTable, stockTable>>
    /\ UNCHANGED fetchVars

NextValuations == CalculatePortfolioData \/ RenderPortfolioGridBeside

SpecValuations == InitValuations /\ [][NextValuations]_vars

-----------------------------------------------------------------------------
(* Vocabulary of the properties *)

Valued == pc \in {"valued", "done"}

\* the rows on which a symbol has a valid price
ValidRows(symbol) == { q \in 1..Len(data) : IsValidPrice(Cell(data[q], symbol)) }

ValidRowsUpTo(symbol, r) == { q \in ValidRows(symbol) : q <= r }

MinOf(S) == CHOOSE x \in S : \A y \in S : x <= y

MaxOf(S) == CHOOSE x \in S : \A y \in S : y <= x

\* the (row, person, entry) triples of the valuation
StepIds ==
    UNION { { <<r, i, j>> : r \in 1..Len(data),
                            j \in 1..Len(PORTFOLIOS[i].entries) } :
              i \in 1..Len(PORTFOLIOS) }

EntryOf(id) == PORTFOLIOS[id[2]].entries[id[3]]

StepOf(id) == contrib[id[1]][id[2]][id[3]]

IsTicker(id) == EntryOf(id).key # "cash_amount"

-----------------------------------------------------------------------------
(* C1: wherever the valuation resolves a price for a ticker on a row (the    *)
(* ticker has shares), the price is the ticker's price on the latest row at  *)
(* or before that row with a valid price, and no price is resolved exactly   *)
(* when no such row exists; a later row's price is never used.               *)
C1_ResolvedPriceIsLatestValid ==
    Valued =>
        \A id \in StepIds :
            (IsTicker(id) /\ StepOf(id).rule # "skip") =>
                LET upTo == ValidRowsUpTo(EntryOf(id).key, id[1])
                IN  IF upTo = {}
                    THEN StepOf(id).rule = "investment" /\ StepOf(id).price = Null
                    ELSE /\ StepOf(id).rule = "priced"
                         /\ StepOf(id).price =
                                Cell(data[MaxOf(upTo)], EntryOf(id).key)

\* a price forward-filled over a gap, with two different earlier prices
C1_Witness ==
    /\ Valued
    /\ \E id \in StepIds :
          /\ StepOf(id).rule = "priced"
          /\ ~IsValidPrice(Cell(data[id[1]], EntryOf(id).key))
          /\ \E q \in ValidRowsUpTo(EntryOf(id).key, id[1]) :
                Cell(data[q], EntryOf(id).key) # StepOf(id).price

(* C2: the share count of a (portfolio, ticker) pair times the ticker's      *)
(* price on the first row of the whole sequence with a valid price equals    *)
(* the invested amount, for every portfolio holding the ticker.              *)
C2_SharesFromFirstValidPrice ==
    Valued =>
        \A id \in StepIds :
            (IsTicker(id) /\ ValidRows(EntryOf(id).key) # {}) =>
                LET first == MinOf(ValidRows(EntryOf(id).key))
                    initialPrice == Cell(data[first], EntryOf(id).key)
                IN  Mul(StepOf(id).numShares, initialPrice)
                        = Num(EntryOf(id).amount)

\* two portfolios hold a ticker that has no price on the first row
C2_Witness ==
    /\ Valued
    /\ \E id1, id2 \in StepIds :
          /\ id1[2] # id2[2]
          /\ IsTicker(id1)
          /\ EntryOf(id1).key = EntryOf(id2).key
          /\ ValidRows(EntryOf(id1).key) # {}
          /\ 1 \notin ValidRows(EntryOf(id1).key)
          /\ StepOf(id1).numShares.n > 0
          /\ StepOf(id2).numShares.n > 0

(* C3: for a ticker with at least one valid price, a row before its first    *)
(* valid row adds the raw invested amount, and a row at or after it adds     *)
(* the share count times the latest valid price at or before the row.        *)
C3_InvestmentBeforeFirstPrice ==
    Valued =>
        \A id \in StepIds :
            (IsTicker(id) /\ ValidRows(EntryOf(id).key) # {}) =>
                LET upTo == ValidRowsUpTo(EntryOf(id).key, id[1])
                IN  IF upTo = {}
                    THEN StepOf(id).add = Num(EntryOf(id).amount)
                    ELSE StepOf(id).add =
                            Mul(StepOf(id).numShares,
                                Cell(data[MaxOf(upTo)], EntryOf(id).key))

\* a position valued at its investment first and at shares x price later,
\* the later value differing from the investment
C3_Witness ==
    /\ Valued
    /\ \E id1, id2 \in StepIds :
          /\ id1[2] = id2[2] /\ id1[3] = id2[3] /\ id1[1] < id2[1]
          /\ StepOf(id1).rule = "investment"
          /\ StepOf(id2).rule = "priced"
          /\ StepOf(id2).add # Num(EntryOf(id2).amount)

(* C4 as stated: a ticker without a valid price on any row adds its raw      *)
(* invested amount on every row.                                             *)
C4_UnpricedAddsInvestment ==
    Valued =>
        \A id \in StepIds :
            (IsTicker(id) /\ ValidRows(EntryOf(id).key) = {}) =>
                StepOf(id).add = Num(EntryOf(id).amount)

(* C4 amended: a ticker without a valid price on any row (or absent from     *)
(* the rows) has share count 0 and adds 0 on every row.                      *)
C4_UnpricedAddsNothing ==
    Valued =>
        \A id \in StepIds :
            (IsTicker(id) /\ ValidRows(EntryOf(id).key) = {}) =>
                /\ StepOf(id).numShares = Num(0)
                /\ StepOf(id).add = Num(0)

\* a ticker with money invested that no row prices, valued on two rows
C4_Witness ==
    /\ Valued
    /\ Len(data) >= 2
    /\ \E id \in StepIds :
          /\ IsTicker(id)
          /\ ValidRows(EntryOf(id).key) = {}
          /\ EntryOf(id).amount > 0
          /\ id[1] = 2

(* C5: a ticker whose share count is 0 adds 0 on every row, whatever the     *)
(* rows hold.                                                                *)
C5_NoSharesAddsNothing ==
    Valued =>
        \A id \in StepIds :
            (IsTicker(id) /\ StepOf(id).numShares.n = 0) =>
                StepOf(id).add = Num(0)

\* a ticker with share count 0 on a row that has a valid price for it
C5_Witness ==
    /\ Valued
    /\ \E id \in StepIds :
          /\ IsTicker(id)
          /\ StepOf(id).numShares.n = 0
          /\ IsValidPrice(Cell(data[id[1]], EntryOf(id).key))

\* the sum of what the tickers (not the cash) of person i add on row r, over
\* the first j keys
RECURSIVE TickerSum(_, _, _)
TickerSum(r, i, j) ==
    IF j = 0 THEN Num(0)
    ELSE IF PORTFOLIOS[i].entries[j].key = "cash_amount"
         THEN TickerSum(r, i, j - 1)
         ELSE Add(TickerSum(r, i, j - 1), contrib[r][i][j].add)

PersonValue(r, i) == portfolioData[r].vals[PORTFOLIOS[i].name]

(* C6: a cash_amount entry gets no shares and adds exactly its amount on     *)
(* every row, so the value of its portfolio is that amount plus what the     *)
(* tickers add; and getAllStocks lists every ticker key but never            *)
(* cash_amount.                                                              *)
C6_CashAddedVerbatim ==
    /\ pc # "module" =>
          /\ "cash_amount" \notin Range(STOCKS)
          /\ \A i \in 1..Len(PORTFOLIOS) :
                \A j \in 1..Len(PORTFOLIOS[i].entries) :
                    PORTFOLIOS[i].entries[j].key # "cash_amount" =>
                        PORTFOLIOS[i].entries[j].key \in Range(STOCKS)
    /\ Valued =>
          \A id \in StepIds :
              ~IsTicker(id) =>
                  /\ StepOf(id).numShares = Num(0)
                  /\ StepOf(id).add = Num(EntryOf(id).amount)
                  /\ PersonValue(id[1], id[2]) =
                        Add(Num(EntryOf(id).amount),
                            TickerSum(id[1], id[2],
                                      Len(PORTFOLIOS[id[2]].entries)))

\* a portfolio with cash valued on two rows on which its ticker is worth
\* different amounts
C6_Witness ==
    /\ Valued
    /\ \E id1, id2 \in StepIds :
          /\ ~IsTicker(id1) /\ ~IsTicker(id2)
          /\ id1[2] = id2[2] /\ id1[1] # id2[1]
          /\ PersonValue(id1[1], id1[2]) # PersonValue(id2[1], id2[2])
          /\ "AAA" \in Range(STOCKS)

ScenarioData ==
    << [date |-> <<2025, 1, 2>>, cols |-> [AAA |-> Num(100), BBB |-> Num(50)]],
       [date |-> <<2025, 2, 1>>, cols |-> [AAA |-> Num(110), BBB |-> Null]] >>

(* C7: for P = {AAA: 30000, BBB: 70000}, AAA at 100 on 2025-01-02 and 110 on *)
(* 2025-02-01, BBB at 50 on 2025-01-02 only, the values are 100000 and       *)
(* 103000, the baseline is 100000 and the table has a February 2025 row      *)
(* whose change is 3000.                                                     *)
C7_Scenario ==
    (/\ pc = "done"
     /\ PORTFOLIOS = ScenarioPortfolios
     /\ data = ScenarioData
     /\ year = 2025) =>
        /\ portfolioData[1].vals["P"] = Num(100000)
        /\ portfolioData[2].vals["P"] = Num(103000)
        /\ Get(portfolioTable.jan1Baseline, "P") = Num(100000)
        /\ \E i \in 1..Len(portfolioTable.monthlyRows) :
              /\ portfolioTable.monthlyRows[i].key = <<2025, 2>>
              /\ portfolioTable.cells[i]["P"].t = "change"
              /\ portfolioTable.cells[i]["P"].change = Num(3000)

StrictlyAscending(d) ==
    \A r \in 1..(Len(d) - 1) : TupleLess(d[r].date, d[r + 1].date)

C10_BaselinePerEntity ==
    stockTable # NotRendered =>
        \A s \in Range(symbols) :
            LET own == ValidRows(s)
                jan1 == { q \in own : data[q].date = <<year, 1, 1>> }
            IN  Get(stockTable.jan1Baseline, s) =
                    IF jan1 # {} THEN Cell(data[MinOf(jan1)], s)
                    ELSE IF own # {} THEN Cell(data[MinOf(own)], s)
                    ELSE Undefined

\* both tables are rendered
TablesRendered == portfolioTable # NotRendered /\ stockTable # NotRendered

NoBaseline(baseline) ==
    baseline = Undefined \/ (IsNumber(baseline) /\ baseline.n = 0)

PeopleNames == { PORTFOLIOS[i].name : i \in 1..Len(PORTFOLIOS) }

(* C11: in both tables, an entity (symbol or person) whose baseline is       *)
(* missing or 0 has "-" in every monthly row, whatever the month values are. *)
C11_NoBaselineAllDashes ==
    TablesRendered =>
        /\ \A s \in Range(symbols) :
              NoBaseline(Get(stockTable.jan1Baseline, s)) =>
                  \A i \in 1..Len(stockTable.cells) :
                      stockTable.cells[i][s] = Dash
        /\ \A person \in PeopleNames :
              NoBaseline(Get(portfolioTable.jan1Baseline, person)) =>
                  \A i \in 1..Len(portfolioTable.cells) :
                      portfolioTable.cells[i][person] = Dash

\* a symbol without a baseline that has a price in some month, and a person
\* with baseline 0 in a table that has a row
C11_Witness ==
    /\ TablesRendered
    /\ \E s \in Range(symbols) :
          /\ Get(stockTable.jan1Baseline, s) = Undefined
          /\ \E i \in 1..Len(stockTable.monthlyRows) :
                IsValidPrice(stockTable.monthlyRows[i].vals[s])
    /\ \E person \in PeopleNames :
          /\ Get(portfolioTable.jan1Baseline, person) = Num(0)
          /\ Len(portfolioTable.monthlyRows) >= 1

\* the month keys the tables are expected to show for the year
ExpectedMonthKeys ==
    [m \in 1..(IF year = today[1] THEN today[2] ELSE 12) |-> <<year, m>>]

RowKeys(table) == [i \in 1..Len(table.monthlyRows) |-> table.monthlyRows[i].key]

(* C12: both tables have exactly one row per expected month of the year, in  *)
(* month order: 1..12 for a past year, 1..current month for the current      *)
(* year, whichever months the data has rows for.                             *)
C12_OneRowPerExpectedMonth ==
    TablesRendered =>
        /\ RowKeys(stockTable) = ExpectedMonthKeys
        /\ RowKeys(portfolioTable) = ExpectedMonthKeys

\* the rows dated in a month on which a symbol has a valid price
ValidRowsOfMonth(symbol, monthKey) ==
    { q \in ValidRows(symbol) : <<data[q].date[1], data[q].date[2]>> = monthKey }

(* C13: in the stock table, the value of a symbol for an expected month is   *)
(* its valid price on the latest row dated in that month, and null when no   *)
(* row dated in that month has a valid price for it.                         *)
C13_LastValidOfMonth ==
    stockTable # NotRendered =>
        \A i \in 1..Len(stockTable.monthlyRows) :
            \A s \in Range(symbols) :
                LET inMonth == ValidRowsOfMonth(s, stockTable.monthlyRows[i].key)
                IN  stockTable.monthlyRows[i].vals[s] =
                        IF inMonth = {} THEN Null
                        ELSE Cell(data[MaxOf(inMonth)], s)

\* what a cell with a month value and a baseline has to show
IsDeltaCell(cell, monthValue, baseline) ==
    LET delta == Sub(monthValue, baseline)
    IN  /\ cell.t = "change"
        /\ cell.change = delta
        /\ cell.rounded = MathRound(delta)
        /\ cell.color = (IF delta.n > 0 THEN "#10b981"
                         ELSE IF delta.n < 0 THEN "#ef4444" ELSE "#6b7280")
        /\ cell.color = "#6b7280" <=> delta = Num(0)

(* C14: in both tables, a cell whose month has a value and whose entity has  *)
(* a baseline shows the change monthValue - baseline (as whole dollars) and  *)
(* is coloured as a gain when the change is > 0, as a loss when it is < 0    *)
(* and neutral when it is exactly 0.                                         *)
C14_DeltaAndThreeWayStyle ==
    TablesRendered =>
        /\ \A i \in 1..Len(stockTable.monthlyRows) :
              \A s \in Range(symbols) :
                  LET monthValue == stockTable.monthlyRows[i].vals[s]
                      baseline == Get(stockTable.jan1Baseline, s)
                  IN  (IsNumber(monthValue) /\ ~NoBaseline(baseline)) =>
                          IsDeltaCell(stockTable.cells[i][s], monthValue, baseline)
        /\ \A i \in 1..Len(portfolioTable.monthlyRows) :
              \A person \in PeopleNames :
                  LET monthValue == portfolioTable.monthlyRows[i].vals[person]
                      baseline == Get(portfolioTable.jan1Baseline, person)
                  IN  (IsNumber(monthValue) /\ ~NoBaseline(baseline)) =>
                          IsDeltaCell(portfolioTable.cells[i][person],
                                      monthValue, baseline)

\* a neutral cell and a loss in the stock table, and a change that is not a
\* whole number in the portfolio table
C14_Witness ==
    /\ TablesRendered
    /\ \E i, j \in 1..Len(stockTable.cells) :
          \E s1, s2 \in Range(symbols) :
              /\ stockTable.cells[i][s1].t = "change"
              /\ stockTable.cells[i][s1].change = Num(0)
              /\ stockTable.cells[j][s2].t = "change"
              /\ stockTable.cells[j][s2].change.n < 0
    /\ \E i \in 1..Len(portfolioTable.cells) :
          \E person \in PeopleNames :
              /\ portfolioTable.cells[i][person].t = "change"
              /\ portfolioTable.cells[i][person].change.d > 1

(* C15: the stock table is a function of the series, the year and the list   *)
(* of symbols alone: rendered on any other day or in any other time zone,    *)
(* the same series, year and symbols give the same expected months, monthly  *)
(* values, baselines and cells.                                              *)
C15_TableOfSeriesYearSymbolsOnly ==
    stockTable # NotRendered =>
        \A td \in TodayChoices :
            \A west \in BOOLEAN :
                renderStockTable(data, symbols, year, td, west) = stockTable

GridRendered == portfolioGrid # NotRendered

\* the people whose definition has at least one entry
NonEmptyPeople ==
    { PORTFOLIOS[i].name : i \in { k \in 1..Len(PORTFOLIOS) :
                                     PORTFOLIOS[k].entries # <<>> } }

(* C16: the ranked list holds every portfolio with at least one entry        *)
(* exactly once and no portfolio with an empty definition, and the ranks     *)
(* are those of the non-empty portfolios alone: they start at 1 and stay     *)
(* within the length of the list.                                            *)
C16_RankingOfNonEmptyOnly ==
    GridRendered =>
        LET ranked == portfolioGrid.rankedPeople
        IN  /\ { ranked[k].person : k \in 1..Len(ranked) } = NonEmptyPeople
            /\ Len(ranked) = Cardinality(NonEmptyPeople)
            /\ \A k \in 1..Len(ranked) : ranked[k].rank \in 1..Len(ranked)
            /\ Len(ranked) > 0 => ranked[1].rank = 1

\* an empty definition listed first, whose gain of 0 would beat the losses
\* of the two ranked portfolios
C16_Witness ==
    /\ GridRendered
    /\ Len(PORTFOLIOS) >= 3
    /\ PORTFOLIOS[1].entries = <<>>
    /\ Len(portfolioGrid.rankedPeople) = Len(PORTFOLIOS) - 1
    /\ \A k \in 1..Len(portfolioGrid.rankedPeople) :
          portfolioGrid.rankedPeople[k].gain.n < 0

DefinitionOf(person) ==
    PORTFOLIOS[CHOOSE i \in 1..Len(PORTFOLIOS) : PORTFOLIOS[i].name = person].entries

\* the dollars invested in the first j entries, cash included
RECURSIVE InvestedUpTo(_, _)
InvestedUpTo(entries, j) ==
    IF j = 0 THEN 0 ELSE entries[j].amount + InvestedUpTo(entries, j - 1)

\* the latest value of the first j entries: cash as it is, a ticker at its
\* investment times its latest over its first valid price, 0 without a price
RECURSIVE LatestValueUpTo(_, _)
LatestValueUpTo(entries, j) ==
    IF j = 0 THEN Num(0)
    ELSE LET e == entries[j]
             rows == ValidRows(e.key)
         IN  Add(LatestValueUpTo(entries, j - 1),
                 IF e.key = "cash_amount" THEN Num(e.amount)
                 ELSE IF rows = {} THEN Num(0)
                 ELSE Div(Mul(Num(e.amount), Cell(data[MaxOf(rows)], e.key)),
                          Cell(data[MinOf(rows)], e.key)))

(* C17: for every ranked portfolio the gain is its latest value minus the    *)
(* dollars invested, the invested total being the sum of all entries of the  *)
(* definition, cash_amount and never-priced tickers included.                *)
C17_GainIsValueMinusInvested ==
    GridRendered =>
        \A k \in 1..Len(portfolioGrid.rankedPeople) :
            LET item == portfolioGrid.rankedPeople[k]
                entries == DefinitionOf(item.person)
            IN  /\ item.totalInvestment = Num(InvestedUpTo(entries, Len(entries)))
                /\ item.portfolioValue = LatestValueUpTo(entries, Len(entries))
                /\ item.gain = Sub(item.portfolioValue, item.totalInvestment)

\* a ranked portfolio with cash, a ticker whose price moved and a ticker
\* that no row prices
C17_Witness ==
    /\ GridRendered
    /\ \E k \in 1..Len(portfolioGrid.rankedPeople) :
          LET entries == DefinitionOf(portfolioGrid.rankedPeople[k].person)
          IN  /\ \E j \in 1..Len(entries) : entries[j].key = "cash_amount"
              /\ \E j \in 1..Len(entries) :
                    /\ entries[j].key # "cash_amount"
                    /\ entries[j].amount > 0
                    /\ ValidRows(entries[j].key) = {}
              /\ \E j \in 1..Len(entries) :
                    /\ Cardinality(ValidRows(entries[j].key)) = 2
                    /\ Cell(data[1], entries[j].key) # Cell(data[2], entries[j].key)

\* the position of a person among the keys of PORTFOLIOS
DefinitionIndex(person) ==
    CHOOSE i \in 1..Len(PORTFOLIOS) : PORTFOLIOS[i].name = person

\* the same definitions with the keys in the opposite order
ReversedPortfolios ==
    [i \in 1..Len(PORTFOLIOS) |-> PORTFOLIOS[Len(PORTFOLIOS) + 1 - i]]

\* the same definitions with the keys in the order of the names
RECURSIVE PortfoliosByName(_)
PortfoliosByName(S) ==
    IF S = {} THEN <<>>
    ELSE LET i == CHOOSE x \in S : \A y \in S :
                      NamePosition(PORTFOLIOS[x].name)
                          <= NamePosition(PORTFOLIOS[y].name)
         IN  <<PORTFOLIOS[i]>> \o PortfoliosByName(S \ {i})

(* C18: in the ranked list a larger gain comes first and equal gains are in  *)
(* ascending order of the names; the list is the same when the portfolios    *)
(* are defined in another order.                                             *)
C18_GainDescendingThenName ==
    GridRendered =>
        LET ranked == portfolioGrid.rankedPeople
        IN  /\ \A k, l \in 1..Len(ranked) :
                  k < l =>
                      \/ Less(ranked[l].gain, ranked[k].gain)
                      \/ /\ ranked[k].gain = ranked[l].gain
                         /\ NamePosition(ranked[k].person)
                                < NamePosition(ranked[l].person)
            /\ renderPortfolioGrid(ReversedPortfolios, data).rankedPeople = ranked
            /\ renderPortfolioGrid(PortfoliosByName(DOMAIN PORTFOLIOS),
                                   data).rankedPeople = ranked

\* two portfolios of equal gain defined in descending order of their names,
\* after a portfolio of smaller gain
C18_Witness ==
    /\ GridRendered
    /\ \E k, l, m \in 1..Len(portfolioGrid.rankedPeople) :
          LET ranked == portfolioGrid.rankedPeople
          IN  /\ k < l /\ l < m
              /\ ranked[k].gain = ranked[l].gain
              /\ Less(ranked[m].gain, ranked[l].gain)
              /\ DefinitionIndex(ranked[l].person) < DefinitionIndex(ranked[k].person)
              /\ DefinitionIndex(ranked[m].person) < DefinitionIndex(ranked[l].person)

\* person, rank and gain of every entry of the ranked list
RankedSummary ==
    [k \in 1..Len(portfolioGrid.rankedPeople) |->
        <<portfolioGrid.rankedPeople[k].person,
          portfolioGrid.rankedPeople[k].rank,
          portfolioGrid.rankedPeople[k].gain>>]

GainOfPerson(person) ==
    LET ranked == portfolioGrid.rankedPeople
    IN  ranked[CHOOSE k \in 1..Len(ranked) : ranked[k].person = person].gain

(* C19: the entry at position k of the sorted list has the rank of the entry *)
(* before it when their gains are equal and rank k otherwise, so its rank is *)
(* 1 + the number of entries with a strictly greater gain, for tie groups of *)
(* any size; gains 5000, 5000, 3000 of Bob, Alice, Carl rank Alice 1, Bob 1, *)
(* Carl 3.                                                                   *)
C19_CompetitionRanking ==
    GridRendered =>
        LET ranked == portfolioGrid.rankedPeople
        IN  /\ \A k \in 1..Len(ranked) :
                  /\ ranked[k].rank =
                        IF k > 1 /\ ranked[k - 1].gain = ranked[k].gain
                        THEN ranked[k - 1].rank ELSE k
                  /\ ranked[k].rank =
                        1 + Cardinality({ j \in 1..Len(ranked) :
                                            Less(ranked[k].gain, ranked[j].gain) })
            /\ (/\ NonEmptyPeople = {"Alice", "Bob", "Carl"}
                /\ GainOfPerson("Bob") = Num(5000)
                /\ GainOfPerson("Alice") = Num(5000)
                /\ GainOfPerson("Carl") = Num(3000))
               => RankedSummary = << <<"Alice", 1, Num(5000)>>,
                                     <<"Bob", 1, Num(5000)>>,
                                     <<"Carl", 3, Num(3000)>> >>

\* a tie group of three at the top, followed by an entry of rank 4
C19_Witness ==
    /\ GridRendered
    /\ Len(portfolioGrid.rankedPeople) = 4
    /\ \A k \in 1..3 : portfolioGrid.rankedPeople[k].rank = 1
    /\ portfolioGrid.rankedPeople[4].rank = 4

(* C20: the gain percent of a ranked entry is gain / totalInvested x 100     *)
(* when the invested total is not 0, and is undefined, not a number, when    *)
(* the invested total is 0.                                                  *)
C20_GainPercentUndefinedAtZero ==
    GridRendered =>
        \A k \in 1..Len(portfolioGrid.cards) :
            LET item == portfolioGrid.rankedPeople[k]
            IN  portfolioGrid.cards[k].gainPercent =
                    IF item.totalInvestment # Num(0)
                    THEN Mul(Div(item.gain, item.totalInvestment), Num(100))
                    ELSE Undefined

BatchRunning == batch # Idle

\* the symbols of a list whose call ended with a non-empty series, in order
RECURSIVE SymbolsWithData(_, _)
SymbolsWithData(outcomes, k) ==
    IF k = 0 THEN <<>>
    ELSE IF outcomes[k].hasData
         THEN Append(SymbolsWithData(outcomes, k - 1), outcomes[k].symbol)
         ELSE SymbolsWithData(outcomes, k - 1)

(* C21: in the loops over the symbols a failed call never ends the loop:     *)
(* the symbols are attempted once each, in list order, the loop ends only    *)
(* after the last symbol, and the result holds exactly the symbols whose     *)
(* call returned a non-empty series.                                         *)
C21_FailureNeverAborts ==
    BatchRunning =>
        /\ Len(batch.attempted) <= Len(batch.symbols)
        /\ batch.attempted = SubSeq(batch.symbols, 1, Len(batch.attempted))
        /\ batch.pc = "done" => batch.attempted = batch.symbols
        /\ Len(batch.outcomes) = batch.i - 1
        /\ \A k \in 1..Len(batch.outcomes) :
              batch.outcomes[k].symbol = batch.symbols[k]
        /\ batch.dataMap = SymbolsWithData(batch.outcomes, Len(batch.outcomes))

\* a finished loop whose first symbol failed and whose second has data
C21_Witness ==
    /\ BatchRunning
    /\ batch.fn # "fetchAllStocks"
    /\ batch.pc = "done"
    /\ Len(batch.symbols) >= 2
    /\ batch.outcomes[1].outcome = "thrown"
    /\ batch.outcomes[2].hasData
    /\ batch.dataMap = <<batch.symbols[2]>>

CallRunning == call # Idle

\* the wait that the claim prescribes after the failed attempt k (0-based)
backoffMs(response, k) ==
    IF response.status = 429 /\ response.retryAfter # Null
    THEN response.retryAfter.n * 1000
    ELSE Pow2(k) * 1000

\* the number of requests of the call that were followed by another request
followedRequests(c) ==
    IF c.pc = "request" THEN Len(c.responses) ELSE Len(c.responses) - 1

(* C22: one call of fetchStockData issues at most `retries` requests; after
   the failed attempt k (0-based) that is followed by another request it has
   waited 2^k seconds, or the seconds of Retry-After for a 429 that carries
   the header; a successful answer is the last request of the call. *)
C22_BoundedRetriesWithBackoff ==
    CallRunning =>
        /\ call.requests <= call.retries
        /\ call.requests = Len(call.responses)
        /\ \A k \in 1..Len(call.responses) :
               call.responses[k].status = 200 =>
                   k = Len(call.responses) /\ call.pc = "done"
        /\ \A k \in 1..followedRequests(call) :
               /\ call.responses[k].status # 200
               /\ k <= Len(call.waits)
               /\ call.waits[k] = [attempt |-> k - 1,
                                   ms |-> backoffMs(call.responses[k], k - 1)]

C22_Witness ==
    /\ CallRunning
    /\ call.version = "service"
    /\ call.pc = "done"
    /\ call.outcome = "returned"
    /\ Len(call.responses) = 3
    /\ call.responses[1].status = 429
    /\ call.responses[1].retryAfter # Null
    /\ call.responses[2].status = 500
    /\ call.responses[3].status = 200
    /\ call.waits = <<[attempt |-> 0, ms |-> 5000], [attempt |-> 1, ms |-> 2000]>>

\* the fetch of symbol k failed because of rate limiting: it threw, and
\* every one of its requests was answered with 429
failedByRateLimit(o) == o.outcome = "thrown" /\ o.all429

(* C24: fetchMultipleStockDataProgressive waits initialDelayMs after a symbol
   as long as no symbol's fetch has failed because of rate limiting, and
   rateLimitedDelayMs after every symbol from the first such failure on. *)
C24_DelayFollowsRateLimit ==
    (BatchRunning /\ batch.fn = "fetchMultipleStockDataProgressive") =>
        \A k \in 1..Len(batch.delays) :
            batch.delays[k] =
                IF \E j \in 1..k : failedByRateLimit(batch.outcomes[j])
                THEN RateLimitedDelayMs
                ELSE InitialDelayMs

(* C25: in every version of fetchStockData with a retry loop, a call whose
   every request was answered with 429 ends by throwing; a call that
   completes normally returns a price array. *)
C25_AllRateLimitedThrows ==
    (CallRunning /\ call.pc = "done") =>
        /\ call.outcome = "returned" => call.value.t = "array"
        /\ (\A k \in 1..Len(call.responses) : call.responses[k].status = 429)
               => call.outcome = "thrown"

Combined == pc \in {"App.combineStockData", "portfolios.combineStockData"}

\* the fetched series of the symbol has a point on the date
hasObservation(map, symbol, date) ==
    /\ symbol \in DOMAIN map
    /\ \E k \in 1..Len(map[symbol]) : map[symbol][k].date = date

(* C23: in the rows built by either combineStockData, a ticker without an
   observation on the date of a row holds null there, never the number 0;
   every row's date has an observation of at least one ticker, and the dates
   of the rows are strictly ascending. *)
C23_MissingIsNull ==
    Combined =>
        /\ \A r \in 1..Len(data) :
               \A sym \in Range(STOCKS) :
                   ~hasObservation(stockDataMap, sym, data[r].date)
                       => data[r].cols[sym] = Null
        /\ \A r \in 1..Len(data) :
               \E sym \in Range(STOCKS) :
                   hasObservation(stockDataMap, sym, data[r].date)
        /\ \A r \in 1..(Len(data) - 1) :
               TupleLess(data[r].date, data[r + 1].date)

StooqRunning == batch # Idle /\ batch.t = "stooq"

(* C26: in fetchAllStocks of the Stooq script, every regular symbol for
   which Stooq gave no data (an empty result or a failure after its retries)
   has had the Massive fallback attempted when the iteration ends; nothing
   is sent to Stooq or Massive for a crypto symbol; and the fixed delay is
   applied exactly once after each symbol except the last. *)
C26_FallbackBeforeNoData ==
    StooqRunning =>
        /\ \A k \in 1..Len(batch.outcomes) :
               LET o == batch.outcomes[k]
               IN  /\ (~isCrypto(o.symbol) /\ o.stooq # "data")
                          => \E j \in 1..Len(o.tried) : o.tried[j] = "massive"
                   /\ isCrypto(o.symbol)
                          => \A j \in 1..Len(o.tried) : o.tried[j] = "coingecko"
        /\ \A k \in 1..Len(batch.sent) :
               batch.sent[k].to \in {"stooq", "massive"}
                   => \E j \in 1..Len(batch.symbols) :
                          /\ ~isCrypto(batch.symbols[j])
                          /\ batch.symbols[j].ticker = batch.sent[k].ticker
        /\ batch.delays =
               [k \in 1..(IF batch.pc = "done" THEN Len(batch.symbols) - 1
                          ELSE batch.i - 1) |->
                   [after |-> k, ms |-> DELAY_BETWEEN_REQUESTS_MS]]

StocksJsonWritten == stocksJson # Idle

(* C27: the stocks object that the Yahoo Finance script writes to
   stocks.json holds every non-empty series that fetchAllStocks obtained for
   a symbol of the portfolios, and nothing else. *)
C27_WrittenIsObtained ==
    StocksJsonWritten =>
        /\ \A k \in 1..Len(batch.obtained) :
               LET o == batch.obtained[k]
               IN  (\E j \in 1..Len(STOCKS) : STOCKS[j] = o.symbol)
                       => \E w \in 1..Len(stocksJson.stocks) :
                              stocksJson.stocks[w] = yearKey(o.symbol, o.year)
        /\ \A w \in 1..Len(stocksJson.stocks) :
               \E k \in 1..Len(batch.obtained) :
                   stocksJson.stocks[w] = yearKey(batch.obtained[k].symbol,
                                                  batch.obtained[k].year)

RunsInProgress == { k \in 1..Len(fetchRuns) : fetchRuns[k].pc # "done" }

(* C28: on every path on which handleFetchData finishes, loading is false
   and progress is null afterwards; while a run is in progress loading is
   true, which disables the reload button, and no second run is in
   progress. *)
C28_LoadingEndsWithRun ==
    /\ Cardinality(RunsInProgress) <= 1
    /\ RunsInProgress = {} => (loading = FALSE /\ progress = Null)
    /\ RunsInProgress # {} => loading = TRUE

C28_Witness ==
    /\ Len(fetchRuns) = 2
    /\ RunsInProgress = {}
    /\ { fetchRuns[1].path, fetchRuns[2].path } = {"saved", "error"}
    /\ fetchRuns[2].loaded # <<>>
    /\ loading = FALSE
    /\ progress = Null

(* C29: whatever the interleaving of a year change with a fetch in
   progress, every row of the displayed combined data is of the selected
   year. *)
C29_DisplayedIsSelectedYear ==
    \A r \in 1..Len(data) : data[r].date[1] = year

BothValued == pc = "valued" /\ portfolioGrid # NotRendered /\ Len(data) > 0

\* the value of the per-date valuation for the person on the last date
lastValueOf(person) == portfolioData[Len(portfolioData)].vals[person]

(* C30: for non-empty data, the current value that PortfolioGrid computes
   for a portfolio (getPortfolioValue), and shows with its card, equals the
   value that calculatePortfolioData yields for it on the last date. *)
C30_GridValueIsLastTableValue ==
    BothValued =>
        /\ \A i \in 1..Len(PORTFOLIOS) :
               getPortfolioValue(PORTFOLIOS[i].entries, data,
                                 Len(PORTFOLIOS[i].entries))
                   = lastValueOf(PORTFOLIOS[i].name)
        /\ \A k \in 1..Len(portfolioGrid.rankedPeople) :
               portfolioGrid.rankedPeople[k].portfolioValue
                   = lastValueOf(portfolioGrid.rankedPeople[k].person)

C30_Witness ==
    /\ BothValued
    /\ Len(data) >= 2
    /\ ~IsValidPrice(Cell(data[Len(data)], "AAA"))
    /\ IsValidPrice(Cell(data[1], "AAA"))
    /\ \E k \in 1..Len(portfolioGrid.rankedPeople) :
           /\ portfolioGrid.rankedPeople[k].person = "Carl"
           /\ Less(Num(1000), portfolioGrid.rankedPeople[k].portfolioValue)
           /\ portfolioGrid.rankedPeople[k].portfolioValue = lastValueOf("Carl")

====
